---- MODULE Spec2Model ----
(***************************************************************************)
(* Address-space graphics (ASG) core of aemu:                              *)
(*   host-common/address_space_graphics.cpp                                *)
(* Globals (three pools of Blocks, sub-allocation, snapshot) and           *)
(* AddressSpaceGraphicsContext (ping protocol, consumer signalling,        *)
(* construction / destruction, save / load).                               *)
(*                                                                         *)
(* Sizes and offsets are counted in pages of                               *)
(* ADDRESS_SPACE_GRAPHICS_PAGE_SIZE bytes. Host pointers are pairs         *)
(* <<base, offset>>: base identifies a memory object (a buffer obtained    *)
(* from aligned_buf_alloc, or caller-supplied external memory), offset is  *)
(* the distance from its start. Block indices are 0-based as in the code.  *)
(***************************************************************************)
EXTENDS Integers, Sequences, FiniteSets, TLC

VARIABLES
    globals,           \* Globals (the three pools) and the collaborators' state
    ctx,               \* the AddressSpaceGraphicsContext objects, by context id
    mConsumerMessages, \* each context's message channel to its consumer
    consumers,         \* the consumer threads created through ConsumerInterface.create
    aborted,           \* "" while the process runs, else the crashhandler_die that ended it
    lastCall,          \* what the most recent constructor / destructor did to the pools
    snap,              \* the snapshot thread: where it is, the stream, what was saved
    task,              \* a RecurrentTask, its looper timer and the threads that use it
    dir                \* a directory stream (DIR) and the directory it was opened on

vars == <<globals, ctx, mConsumerMessages, consumers, aborted, lastCall, snap, task, dir>>

(***************************************************************************)
(* Bounds of the model                                                     *)
(***************************************************************************)
NumCtx == 3
BlockPages == 4
RingPages == 1
BufPages == 2
PhysSlots == 4
NumVirtioCtx == 2
MaxConsumers == 2

Ctxs == 1..NumCtx

\* ADDRESS_SPACE_GRAPHICS_BLOCK_SIZE, sizeof(struct asg_ring_storage),
\* hw_gltransport_asg_writeBufferSize
BLOCK_SIZE == BlockPages
RingSize == RingPages
PerContextBufferSize == BufPages

NoHandle == 0
NullBuf == 0
NullPtr == <<0, 0>>
ExtBase == 100

Pools == {"mRingBlocks", "mBufferBlocks", "mCombinedBlocks"}

Min(S) == CHOOSE x \in S : \A y \in S : x <= y

(***************************************************************************)
(* struct Block, struct Allocation, struct AllocationCreateInfo            *)
(***************************************************************************)
DefaultBlock ==
    [buffer |-> NullBuf, bufferSize |-> 0, subAlloc |-> {}, offsetIntoPhys |-> 0,
     isEmpty |-> TRUE, dedicatedContextHandle |-> NoHandle,
     usesVirtioGpuHostmem |-> FALSE, hostmemId |-> 0, external |-> FALSE]

DefaultAllocation ==
    [buffer |-> NullPtr, blockIndex |-> 0, offsetIntoPhys |-> 0, size |-> 0,
     dedicatedContextHandle |-> NoHandle, hostmemId |-> 0, isView |-> FALSE]

ZeroCreateInfo ==
    [virtioGpu |-> FALSE, hostmemRegisterFixed |-> FALSE, fromLoad |-> FALSE,
     size |-> 0, hostmemId |-> 0, externalAddr |-> NullBuf,
     dedicatedContextHandle |-> NoHandle]

(***************************************************************************)
(* SubAllocator: a set of <<offset, length>> page ranges handed out of a   *)
(* buffer of n pages; first fit.                                           *)
(***************************************************************************)
SubAllocFree(used, n, off, len) ==
    /\ off + len <= n
    /\ \A u \in used : u[1] + u[2] <= off \/ off + len <= u[1]

\* alloc: the offset handed out, or -1 for a null result
SubAllocAlloc(used, n, len) ==
    LET fits == {off \in 0..n : len > 0 /\ SubAllocFree(used, n, off, len)}
    IN  IF fits = {} THEN -1 ELSE Min(fits)

\* free: whether ptr is a live allocation of this buffer, and the ranges left
SubAllocRelease(used, base, ptr) ==
    IF ptr[1] = base /\ \E u \in used : u[1] = ptr[2]
    THEN [ok |-> TRUE, used |-> {u \in used : u[1] # ptr[2]}]
    ELSE [ok |-> FALSE, used |-> used]

SubAllocEmpty(used) == used = {}

(***************************************************************************)
(* Collaborators, reached through get_address_space_device_hw_funcs() and  *)
(* mControlOps. Their state is carried in the same record as Globals:      *)
(*   regions  - offsets of the physical window handed out                  *)
(*   heap     - buffers obtained from aligned_buf_alloc and not yet freed  *)
(*   mappings - <<offset, buffer>> pairs added with add_memory_mapping     *)
(*   unregistered - number of hostmem_unregister calls                     *)
(*   written  - the memory objects that hold data the guest wrote          *)
(* Both allocators hand out the lowest free unit.                          *)
(***************************************************************************)
\* allocSharedHostRegionLocked: the offset handed out, or -1 when the window is full
allocSharedHostRegionLocked(G) ==
    LET free == {k * BLOCK_SIZE : k \in 0..(PhysSlots - 1)} \ G.regions
    IN  IF free = {} THEN -1 ELSE Min(free)

aligned_buf_alloc(G) == Min((1..(Cardinality(G.heap) + 1)) \ G.heap)

(***************************************************************************)
(* Globals: block lifecycle                                                *)
(***************************************************************************)
Die(G, why) == [abort |-> why, G |-> G, block |-> DefaultBlock, res |-> DefaultAllocation]

\* A fillBlockLocked that does not record the dedicated handle in the block
fillBlockWithoutHandle(G, block, create) ==
    IF create.dedicatedContextHandle # NoHandle
    THEN IF ~create.virtioGpu
         THEN Die(G, "Cannot use dedicated allocation without virtio-gpu hostmem id")
         ELSE IF create.externalAddr = NullBuf
         THEN Die(G, "Cannot use dedicated allocation without virtio-gpu hostmem id")
         ELSE [Die(G, "") EXCEPT !.block =
                 [block EXCEPT !.external = TRUE,
                               !.buffer = create.externalAddr,
                               !.bufferSize = create.size,
                               !.subAlloc = {},
                               !.offsetIntoPhys = 0,
                               !.isEmpty = FALSE,
                               !.usesVirtioGpuHostmem = create.virtioGpu,
                               !.hostmemId = create.hostmemId]]
    ELSE IF create.virtioGpu
         THEN Die(G, "Only dedicated allocation allowed in virtio-gpu hostmem id path")
         ELSE LET offsetIntoPhys == IF create.fromLoad THEN block.offsetIntoPhys
                                    ELSE allocSharedHostRegionLocked(G)
                  buf == aligned_buf_alloc(G)
              IN  IF offsetIntoPhys = -1
                  THEN Die(G, "Failed to allocate physical address graphics backing memory.")
                  ELSE [abort |-> "",
                        G |-> [G EXCEPT !.regions = @ \cup {offsetIntoPhys},
                                        !.heap = @ \cup {buf},
                                        !.mappings = @ \cup {<<offsetIntoPhys, buf>>}],
                        block |-> [block EXCEPT !.buffer = buf,
                                                !.bufferSize = BLOCK_SIZE,
                                                !.subAlloc = {},
                                                !.offsetIntoPhys = offsetIntoPhys,
                                                !.isEmpty = FALSE],
                        res |-> DefaultAllocation]

\* A fillBlockLocked for which a taken region is fatal on load too
fillBlockStrictOnLoad(G, block, create) ==
    IF create.dedicatedContextHandle # NoHandle
    THEN IF ~create.virtioGpu
         THEN Die(G, "Cannot use dedicated allocation without virtio-gpu hostmem id")
         ELSE IF create.externalAddr = NullBuf
         THEN Die(G, "Cannot use dedicated allocation without virtio-gpu hostmem id")
         ELSE [Die(G, "") EXCEPT !.block =
                 [block EXCEPT !.external = TRUE,
                               !.buffer = create.externalAddr,
                               !.bufferSize = create.size,
                               !.subAlloc = {},
                               !.offsetIntoPhys = 0,
                               !.isEmpty = FALSE,
                               !.usesVirtioGpuHostmem = create.virtioGpu,
                               !.hostmemId = create.hostmemId,
                               !.dedicatedContextHandle = create.dedicatedContextHandle]]
    ELSE IF create.virtioGpu
         THEN Die(G, "Only dedicated allocation allowed in virtio-gpu hostmem id path")
         ELSE LET offsetIntoPhys == IF create.fromLoad
                                    THEN IF block.offsetIntoPhys \in G.regions THEN -1
                                         ELSE block.offsetIntoPhys
                                    ELSE allocSharedHostRegionLocked(G)
                  buf == aligned_buf_alloc(G)
              IN  IF offsetIntoPhys = -1
                  THEN Die(G, "Failed to allocate physical address graphics backing memory.")
                  ELSE [abort |-> "",
                        G |-> [G EXCEPT !.regions = @ \cup {offsetIntoPhys},
                                        !.heap = @ \cup {buf},
                                        !.mappings = @ \cup {<<offsetIntoPhys, buf>>}],
                        block |-> [block EXCEPT !.buffer = buf,
                                                !.bufferSize = BLOCK_SIZE,
                                                !.subAlloc = {},
                                                !.offsetIntoPhys = offsetIntoPhys,
                                                !.isEmpty = FALSE],
                        res |-> DefaultAllocation]

\* A fillBlockLocked that makes a dedicated block twice as large as the request
fillBlockTwiceAsLarge(G, block, create) ==
    IF create.dedicatedContextHandle # NoHandle
    THEN IF ~create.virtioGpu
         THEN Die(G, "Cannot use dedicated allocation without virtio-gpu hostmem id")
         ELSE IF create.externalAddr = NullBuf
         THEN Die(G, "Cannot use dedicated allocation without virtio-gpu hostmem id")
         ELSE [Die(G, "") EXCEPT !.block =
                 [block EXCEPT !.external = TRUE,
                               !.buffer = create.externalAddr,
                               !.bufferSize = 2 * create.size,
                               !.subAlloc = {},
                               !.offsetIntoPhys = 0,
                               !.isEmpty = FALSE,
                               !.usesVirtioGpuHostmem = create.virtioGpu,
                               !.hostmemId = create.hostmemId,
                               !.dedicatedContextHandle = create.dedicatedContextHandle]]
    ELSE IF create.virtioGpu
         THEN Die(G, "Only dedicated allocation allowed in virtio-gpu hostmem id path")
         ELSE LET offsetIntoPhys == IF create.fromLoad THEN block.offsetIntoPhys
                                    ELSE allocSharedHostRegionLocked(G)
                  buf == aligned_buf_alloc(G)
              IN  IF offsetIntoPhys = -1
                  THEN Die(G, "Failed to allocate physical address graphics backing memory.")
                  ELSE [abort |-> "",
                        G |-> [G EXCEPT !.regions = @ \cup {offsetIntoPhys},
                                        !.heap = @ \cup {buf},
                                        !.mappings = @ \cup {<<offsetIntoPhys, buf>>}],
                        block |-> [block EXCEPT !.buffer = buf,
                                                !.bufferSize = BLOCK_SIZE,
                                                !.subAlloc = {},
                                                !.offsetIntoPhys = offsetIntoPhys,
                                                !.isEmpty = FALSE],
                        res |-> DefaultAllocation]

\* Globals::fillBlockLocked: [abort, G, block]; a block over external memory for a
\* dedicated request, a block of BLOCK_SIZE in the physical window for any other
fillBlockLocked(G, block, create) ==
    IF create.dedicatedContextHandle # NoHandle
    THEN IF ~create.virtioGpu
         THEN Die(G, "Cannot use dedicated allocation without virtio-gpu hostmem id")
         ELSE IF create.externalAddr = NullBuf
         THEN Die(G, "Cannot use dedicated allocation without virtio-gpu hostmem id")
         ELSE [Die(G, "") EXCEPT !.block =
                 [block EXCEPT !.external = TRUE,
                               !.buffer = create.externalAddr,
                               !.bufferSize = create.size,
                               !.subAlloc = {},
                               !.offsetIntoPhys = 0,
                               !.isEmpty = FALSE,
                               !.usesVirtioGpuHostmem = create.virtioGpu,
                               !.hostmemId = create.hostmemId,
                               !.dedicatedContextHandle = create.dedicatedContextHandle]]
    ELSE IF create.virtioGpu
         THEN Die(G, "Only dedicated allocation allowed in virtio-gpu hostmem id path")
         ELSE LET offsetIntoPhys == IF create.fromLoad THEN block.offsetIntoPhys
                                    ELSE allocSharedHostRegionLocked(G)
                  buf == aligned_buf_alloc(G)
              IN  IF offsetIntoPhys = -1
                  THEN Die(G, "Failed to allocate physical address graphics backing memory.")
                  ELSE [abort |-> "",
                        G |-> [G EXCEPT !.regions = @ \cup {offsetIntoPhys},
                                        !.heap = @ \cup {buf},
                                        !.mappings = @ \cup {<<offsetIntoPhys, buf>>}],
                        block |-> [block EXCEPT !.buffer = buf,
                                                !.bufferSize = BLOCK_SIZE,
                                                !.subAlloc = {},
                                                !.offsetIntoPhys = offsetIntoPhys,
                                                !.isEmpty = FALSE],
                        res |-> DefaultAllocation]

\* A destroyBlockLocked that releases the resources and leaves the slot marked in use
destroyBlockKeepsFlag(G, pool, i) ==
    LET block == G[pool][i]
    IN  IF block.external THEN G
        ELSE [G EXCEPT !.mappings = @ \ {<<block.offsetIntoPhys, block.buffer>>},
                       !.regions = @ \ {block.offsetIntoPhys},
                       !.heap = @ \ {block.buffer},
                       !.written = @ \ {block.buffer}]

\* A destroyBlockLocked that unregisters the host memory of every virtio-backed block,
\* the external ones too
destroyBlockUnregistering(G, pool, i) ==
    LET block == G[pool][i]
        G1 == IF block.usesVirtioGpuHostmem
              THEN [G EXCEPT !.unregistered = @ + 1]
              ELSE IF ~block.external
              THEN [G EXCEPT !.mappings = @ \ {<<block.offsetIntoPhys, block.buffer>>},
                             !.regions = @ \ {block.offsetIntoPhys}]
              ELSE G
        G2 == IF ~block.external
              THEN [G1 EXCEPT !.heap = @ \ {block.buffer}, !.written = @ \ {block.buffer}]
              ELSE G1
    IN  [G2 EXCEPT ![pool][i].subAlloc = {}, ![pool][i].isEmpty = TRUE,
                   ![pool][i].buffer = NullBuf]

\* destroyBlockLocked on block `i` (1-based position) of `pool`. The deleted subAlloc
\* and the freed buffer are left dangling by the code and are rewritten by
\* fillBlockLocked before anything reads them: the model resets them.
destroyBlockLocked(G, pool, i) ==
    LET block == G[pool][i]
        G1 == IF block.usesVirtioGpuHostmem /\ ~block.external
              THEN [G EXCEPT !.unregistered = @ + 1]
              ELSE IF ~block.external
              THEN [G EXCEPT !.mappings = @ \ {<<block.offsetIntoPhys, block.buffer>>},
                             !.regions = @ \ {block.offsetIntoPhys}]
              ELSE G
        G2 == IF ~block.external
              THEN [G1 EXCEPT !.heap = @ \ {block.buffer}, !.written = @ \ {block.buffer}]
              ELSE G1
    IN  [G2 EXCEPT ![pool][i].subAlloc = {}, ![pool][i].isEmpty = TRUE,
                   ![pool][i].buffer = NullBuf]

\* A shouldDestryBlockLocked that does not ask the SubAllocator
shouldDestryAlways(block) == TRUE

shouldDestryBlockLocked(block) == SubAllocEmpty(block.subAlloc)

\* An Allocation that always points at the start of its block
AllocationAtStart(block, index, off, create) ==
    [buffer |-> <<block.buffer, 0>>,
     blockIndex |-> index,
     offsetIntoPhys |-> block.offsetIntoPhys,
     size |-> create.size,
     dedicatedContextHandle |-> create.dedicatedContextHandle,
     hostmemId |-> create.hostmemId,
     isView |-> FALSE]

\* The Allocation newAllocation returns for a sub-allocation at page `off` of `block`
AllocationIn(block, index, off, create) ==
    [buffer |-> <<block.buffer, off>>,
     blockIndex |-> index,
     offsetIntoPhys |-> block.offsetIntoPhys + off,
     size |-> create.size,
     dedicatedContextHandle |-> create.dedicatedContextHandle,
     hostmemId |-> create.hostmemId,
     isView |-> FALSE]

\* newAllocation, the part after fillBlockLocked on a new block: `f` is its result
newAllocationInNewBlock(G, create, pool, index, f) ==
    LET newBlock == f.block
        buf == SubAllocAlloc(newBlock.subAlloc, newBlock.bufferSize, create.size)
    IN  IF f.abort # "" THEN f
        ELSE IF buf = -1
        THEN Die(G, "failed to allocate size (no free slots or out of host memory)")
        ELSE [abort |-> "",
              G |-> [f.G EXCEPT ![pool] =
                       Append(@, [newBlock EXCEPT !.subAlloc = {<<buf, create.size>>}])],
              block |-> newBlock,
              res |-> AllocationIn(newBlock, index, buf, create)]

\* The scan of newAllocation from block `index` (0-based) on, then the new block.
\* newAllocationInBlock is one turn of the loop: `f` is the block at `index` as it is,
\* or as fillBlockLocked refilled it if it was empty.
RECURSIVE newAllocationFrom(_, _, _, _)
RECURSIVE newAllocationInBlock(_, _, _, _, _)
newAllocationInBlock(G, create, pool, index, f) ==
    LET block == f.block
        buf == SubAllocAlloc(block.subAlloc, block.bufferSize, create.size)
        G1 == [f.G EXCEPT ![pool][index + 1] = block]
    IN  IF f.abort # "" THEN f
        ELSE IF block.dedicatedContextHandle # create.dedicatedContextHandle
        THEN newAllocationFrom(G1, create, pool, index + 1)
        ELSE IF buf # -1
        THEN [abort |-> "",
              G |-> [G1 EXCEPT ![pool][index + 1].subAlloc = @ \cup {<<buf, create.size>>}],
              block |-> block,
              res |-> AllocationIn(block, index, buf, create)]
        ELSE newAllocationFrom(G1, create, pool, index + 1)

newAllocationFrom(G, create, pool, index) ==
    IF index < Len(G[pool])
    THEN newAllocationInBlock(G, create, pool, index,
                              IF G[pool][index + 1].isEmpty
                              THEN fillBlockLocked(G, G[pool][index + 1], create)
                              ELSE [Die(G, "") EXCEPT !.block = G[pool][index + 1]])
    ELSE newAllocationInNewBlock(G, create, pool, index,
                                 fillBlockLocked(G, DefaultBlock, create))

\* A newAllocation that never looks at the blocks of the pool and appends a new one
newAllocationAppending(G, create, pool) == newAllocationFrom(G, create, pool, Len(G[pool]))

\* A newAllocation without the test of the size
newAllocationOfAnySize(G, create, pool) == newAllocationFrom(G, create, pool, 0)

\* Globals::newAllocation: [abort, G, block, res]
newAllocation(G, create, pool) ==
    IF create.size > BLOCK_SIZE
    THEN Die(G, "wanted size which is greater than block size")
    ELSE newAllocationFrom(G, create, pool, 0)

\* A deleteAllocation that returns when the SubAllocator's free fails
deleteAllocationIgnoringFree(G, alloc, pool) ==
    IF alloc.buffer = NullPtr THEN Die(G, "")
    ELSE IF Len(G[pool]) <= alloc.blockIndex
    THEN Die(G, "should be a block at index but it is not found")
    ELSE LET block == G[pool][alloc.blockIndex + 1]
             left == SubAllocRelease(block.subAlloc, block.buffer, alloc.buffer)
         IN  IF block.external
             THEN Die(destroyBlockLocked(G, pool, alloc.blockIndex + 1), "")
             ELSE IF ~left.ok
             THEN Die(G, "")
             ELSE LET freed == [block EXCEPT !.subAlloc = left.used]
                      G1 == [G EXCEPT ![pool][alloc.blockIndex + 1] = freed]
                  IN  IF shouldDestryBlockLocked(freed)
                      THEN Die(destroyBlockLocked(G1, pool, alloc.blockIndex + 1), "")
                      ELSE Die(G1, "")

\* Globals::deleteAllocation: [abort, G]
deleteAllocation(G, alloc, pool) ==
    IF alloc.buffer = NullPtr THEN Die(G, "")
    ELSE IF Len(G[pool]) <= alloc.blockIndex
    THEN Die(G, "should be a block at index but it is not found")
    ELSE LET block == G[pool][alloc.blockIndex + 1]
             left == SubAllocRelease(block.subAlloc, block.buffer, alloc.buffer)
         IN  IF block.external
             THEN Die(destroyBlockLocked(G, pool, alloc.blockIndex + 1), "")
             ELSE IF ~left.ok
             THEN Die(G, "failed to free")
             ELSE LET freed == [block EXCEPT !.subAlloc = left.used]
                      G1 == [G EXCEPT ![pool][alloc.blockIndex + 1] = freed]
                  IN  IF shouldDestryBlockLocked(freed)
                      THEN Die(destroyBlockLocked(G1, pool, alloc.blockIndex + 1), "")
                      ELSE Die(G1, "")

(***************************************************************************)
(* Globals: the allocation API used by contexts                            *)
(***************************************************************************)
allocRingStorage(G) ==
    newAllocation(G, [ZeroCreateInfo EXCEPT !.size = RingSize], "mRingBlocks")

freeRingStorage(G, alloc) ==
    IF alloc.isView THEN Die(G, "") ELSE deleteAllocation(G, alloc, "mRingBlocks")

allocBuffer(G) ==
    newAllocation(G, [ZeroCreateInfo EXCEPT !.size = PerContextBufferSize], "mBufferBlocks")

\* A freeBuffer without the isView test
freeBufferOfView(G, alloc) == deleteAllocation(G, alloc, "mBufferBlocks")

freeBuffer(G, alloc) ==
    IF alloc.isView THEN Die(G, "") ELSE deleteAllocation(G, alloc, "mBufferBlocks")

\* An allocRingAndBufferStorageDedicated that takes external memory of any size
allocDedicatedOfAnySize(G, asgCreate) ==
    LET need == RingSize + PerContextBufferSize
        create == [ZeroCreateInfo EXCEPT
                     !.size = IF asgCreate.externalAddr # NullBuf
                              THEN asgCreate.externalAddrSize ELSE need,
                     !.dedicatedContextHandle = asgCreate.handle,
                     !.virtioGpu = TRUE,
                     !.externalAddr = asgCreate.externalAddr]
    IN  IF asgCreate.handle = NoHandle
        THEN Die(G, "Dedicated ASG allocation requested without dedicated handle.")
        ELSE newAllocation(G, create, "mCombinedBlocks")

allocRingAndBufferStorageDedicated(G, asgCreate) ==
    LET need == RingSize + PerContextBufferSize
        create == [ZeroCreateInfo EXCEPT
                     !.size = IF asgCreate.externalAddr # NullBuf
                              THEN asgCreate.externalAddrSize ELSE need,
                     !.dedicatedContextHandle = asgCreate.handle,
                     !.virtioGpu = TRUE,
                     !.externalAddr = asgCreate.externalAddr]
    IN  IF asgCreate.handle = NoHandle
        THEN Die(G, "Dedicated ASG allocation requested without dedicated handle.")
        ELSE IF asgCreate.externalAddr # NullBuf /\ asgCreate.externalAddrSize < need
        THEN Die(G, "External address size too small")
        ELSE newAllocation(G, create, "mCombinedBlocks")

allocRingViewIntoCombined(alloc) ==
    [alloc EXCEPT !.buffer = alloc.buffer, !.size = RingSize, !.isView = TRUE]

\* A buffer view that starts where the ring view starts
allocBufferViewAtStart(alloc) ==
    [alloc EXCEPT !.size = PerContextBufferSize, !.isView = TRUE]

allocBufferViewIntoCombined(alloc) ==
    [alloc EXCEPT !.buffer = <<alloc.buffer[1], alloc.buffer[2] + RingSize>>,
                  !.size = PerContextBufferSize,
                  !.isView = TRUE]

freeRingAndBuffer(G, alloc) == deleteAllocation(G, alloc, "mCombinedBlocks")

\* A clear loop that destroys the slots already destroyed too
RECURSIVE clearPoolEverySlot(_, _, _)
clearPoolEverySlot(G, pool, i) ==
    IF i > Len(G[pool]) THEN G
    ELSE clearPoolEverySlot(destroyBlockLocked(G, pool, i), pool, i + 1)

\* Globals::clear, one pool: every non-empty block of it destroyed, from block `i` on
RECURSIVE clearPool(_, _, _)
clearPool(G, pool, i) ==
    IF i > Len(G[pool]) THEN G
    ELSE clearPool(IF G[pool][i].isEmpty THEN G ELSE destroyBlockLocked(G, pool, i),
                   pool, i + 1)

clear(G) ==
    LET G1 == clearPool(G, "mRingBlocks", 1)
        G2 == clearPool(G1, "mBufferBlocks", 1)
        G3 == clearPool(G2, "mCombinedBlocks", 1)
    IN  [G3 EXCEPT !.mRingBlocks = <<>>, !.mBufferBlocks = <<>>, !.mCombinedBlocks = <<>>]

(***************************************************************************)
(* AddressSpaceGraphicsContext: state                                      *)
(***************************************************************************)
\* hw_gltransport_asg_writeStepSize, in pages
WriteStepSize == 1

InitialRingConfig ==
    [buffer_size |-> PerContextBufferSize, flush_interval |-> WriteStepSize,
     host_consumed_pos |-> 0, guest_write_pos |-> 0, transfer_mode |-> 1,
     transfer_size |-> 0, in_error |-> 0]

ZeroRingConfig ==
    [buffer_size |-> 0, flush_interval |-> 0, host_consumed_pos |-> 0,
     guest_write_pos |-> 0, transfer_mode |-> 0, transfer_size |-> 0, in_error |-> 0]

HostVersion == 1

DefaultContext ==
    [pc |-> "none",
     mRingAllocation |-> DefaultAllocation,
     mBufferAllocation |-> DefaultAllocation,
     mCombinedAllocation |-> DefaultAllocation,
     mVirtioGpuInfo |-> FALSE,
     mVersion |-> HostVersion,
     mExiting |-> 0,
     mUnavailableReadCount |-> 0,
     mCurrentConsumer |-> 0,
     mSavedConfig |-> ZeroRingConfig,
     ring_config |-> ZeroRingConfig,
     host_state |-> "CAN_CONSUME"]

\* A consumer thread: the context whose callbacks it holds, where it is, and the
\* value its last onUnavailableRead returned
DefaultConsumer == [owner |-> 0, pc |-> "unborn", ret |-> 0]

\* struct AddressSpaceCreateInfo, as far as the constructor reads it
GraphicsCreate ==
    [type |-> "Graphics", handle |-> NoHandle, externalAddr |-> NullBuf,
     externalAddrSize |-> 0, createRenderThread |-> FALSE]

\* The well-formed requests of context c: a non-virtio one, and (for the first
\* NumVirtioCtx contexts) virtio ones with the context's dedicated handle and
\* external memory large enough
CreateInfos(c) ==
    {[GraphicsCreate EXCEPT !.createRenderThread = t] : t \in BOOLEAN} \cup
    {[GraphicsCreate EXCEPT !.type = "VirtioGpuGraphics", !.handle = c,
                            !.externalAddr = ExtBase + c, !.externalAddrSize = n,
                            !.createRenderThread = t] :
        n \in IF c <= NumVirtioCtx THEN (RingSize + PerContextBufferSize)..BLOCK_SIZE ELSE {},
        t \in BOOLEAN}

\* The constructor's allocations, virtio: `r` is what
\* allocRingAndBufferStorageDedicated returned
ContextOfCombined(r) ==
    [abort |-> r.abort, G |-> r.G,
     obj |-> [DefaultContext EXCEPT
                !.mVirtioGpuInfo = TRUE,
                !.mCombinedAllocation = r.res,
                !.mRingAllocation = allocRingViewIntoCombined(r.res),
                !.mBufferAllocation = allocBufferViewIntoCombined(r.res)]]

\* The constructor's allocations, non-virtio: `r` is what allocRingStorage returned,
\* `b` what allocBuffer returned after it
ContextOfRingAndBuffer(r, b) ==
    [abort |-> b.abort, G |-> b.G,
     obj |-> [DefaultContext EXCEPT !.mRingAllocation = r.res,
                                    !.mBufferAllocation = b.res]]

ContextOfRing(G, r) ==
    IF r.abort # "" THEN [abort |-> r.abort, G |-> G, obj |-> DefaultContext]
    ELSE ContextOfRingAndBuffer(r, allocBuffer(r.G))

\* The allocations the constructor makes: [abort, G, obj]
ContextAllocate(G, create) ==
    IF create.type = "VirtioGpuGraphics"
    THEN ContextOfCombined(allocRingAndBufferStorageDedicated(G, create))
    ELSE ContextOfRing(G, allocRingStorage(G))

\* The three releases that end the destructor: [abort, G]; `r` is what
\* freeRingStorage returned, `b` what freeBuffer returned
ReleaseAfterRing(obj, r) ==
    IF r.abort # "" THEN r ELSE freeRingAndBuffer(r.G, obj.mCombinedAllocation)

ReleaseAfterBuffer(obj, b) ==
    IF b.abort # "" THEN b
    ELSE ReleaseAfterRing(obj, freeRingStorage(b.G, obj.mRingAllocation))

ContextRelease(G, obj) == ReleaseAfterBuffer(obj, freeBuffer(G, obj.mBufferAllocation))

\* The Allocations of a context that own memory, each with its pool
OwnedAllocations(obj) ==
    {a \in {<<"mRingBlocks", obj.mRingAllocation>>,
            <<"mBufferBlocks", obj.mBufferAllocation>>,
            <<"mCombinedBlocks", obj.mCombinedAllocation>>} :
        ~a[2].isView /\ a[2].buffer # NullPtr}

\* What the last constructor did: whether an Allocation it obtained lies below a
\* range in use of its block (a hole, so a range freed earlier), and whether it lies
\* in a slot that was destroyed (refilled in place). What the last destructor did:
\* the consumers that were blocked in receive when it sent Exit.
NoCall == [op |-> "none", reused |-> FALSE, refilled |-> FALSE, waiting |-> {}]

FreeConsumers == {k \in 1..MaxConsumers : consumers[k].pc = "unborn"}

(***************************************************************************)
(* Actions: construction and destruction                                   *)
(***************************************************************************)
\* The constructor after its allocations `r`, with consumer `k` (0: none) started
Constructed(c, r, k) ==
    IF r.abort # "" \/ r.obj.mRingAllocation.buffer = NullPtr
                    \/ r.obj.mBufferAllocation.buffer = NullPtr
    THEN /\ aborted' = IF r.abort # "" THEN r.abort
                       ELSE "Failed to allocate ring or buffer for ASG context"
         /\ UNCHANGED <<globals, ctx, mConsumerMessages, consumers, lastCall>>
    ELSE /\ globals' = r.G
         /\ ctx' = [ctx EXCEPT ![c] =
                      [r.obj EXCEPT !.pc = "live",
                                    !.ring_config = InitialRingConfig,
                                    !.mSavedConfig = InitialRingConfig,
                                    !.mCurrentConsumer = k]]
         /\ consumers' = IF k = 0 THEN consumers
                         ELSE [consumers EXCEPT ![k] =
                                 [DefaultConsumer EXCEPT !.owner = c, !.pc = "run"]]
         /\ lastCall' =
              [op |-> "new",
               reused |-> \E a \in OwnedAllocations(r.obj) :
                               /\ a[2].blockIndex < Len(globals[a[1]])
                               /\ LET old == globals[a[1]][a[2].blockIndex + 1]
                                  IN  /\ ~old.isEmpty
                                      /\ \E u \in old.subAlloc : u[1] > a[2].buffer[2],
               refilled |-> \E a \in OwnedAllocations(r.obj) :
                               /\ a[2].blockIndex < Len(globals[a[1]])
                               /\ globals[a[1]][a[2].blockIndex + 1].isEmpty,
               waiting |-> {}]
         /\ UNCHANGED <<mConsumerMessages, aborted>>

Construct(c, create) ==
    /\ aborted = ""
    /\ ctx[c].pc = "none"
    /\ create.createRenderThread => FreeConsumers # {}
    /\ Constructed(c, ContextAllocate(globals, create),
                   IF create.createRenderThread THEN Min(FreeConsumers) ELSE 0)

\* The destructor after its releases `r`
Released(c, after, r) ==
    IF r.abort # ""
    THEN /\ aborted' = r.abort
         /\ UNCHANGED <<globals, ctx, mConsumerMessages, consumers, lastCall>>
    ELSE /\ globals' = r.G
         /\ ctx' = [ctx EXCEPT ![c] =
                      [DefaultContext EXCEPT
                         !.pc = after,
                         !.mVirtioGpuInfo = after = "closed" /\ ctx[c].mVirtioGpuInfo]]
         /\ lastCall' = [NoCall EXCEPT !.op = "free"]
         /\ UNCHANGED <<mConsumerMessages, consumers, aborted>>

\* ~AddressSpaceGraphicsContext of a context without a consumer: the three releases.
\* `after` is "none" when the context id may be used again, "closed" when it is not
\* (a closed id keeps the kind of context it named).
DestroyTo(c, after) ==
    /\ aborted = ""
    /\ ctx[c].pc = "live"
    /\ ctx[c].mCurrentConsumer = 0
    /\ Released(c, after, ContextRelease(globals, ctx[c]))

Destroy(c) == DestroyTo(c, "none")

Close(c) == DestroyTo(c, "closed")

\* AddressSpaceGraphicsContext::clear. The contexts alive at the call keep their
\* Allocations, which now point into blocks that are gone: they are "cleared", and
\* wait for load to point them at the reloaded blocks; they are not destroyed.
Clear ==
    /\ aborted = ""
    /\ globals' = clear(globals)
    /\ ctx' = [c \in Ctxs |-> IF ctx[c].pc = "live"
                              THEN [ctx[c] EXCEPT !.pc = "cleared"] ELSE ctx[c]]
    /\ lastCall' = [NoCall EXCEPT !.op = "clear"]
    /\ UNCHANGED <<mConsumerMessages, consumers, aborted>>

(***************************************************************************)
(* AddressSpaceGraphicsContext::perform, the commands that only read       *)
(***************************************************************************)
performGetRing(obj) ==
    [metadata |-> obj.mRingAllocation.offsetIntoPhys, size |-> obj.mRingAllocation.size]

performGetBuffer(obj) ==
    [metadata |-> obj.mBufferAllocation.offsetIntoPhys, size |-> obj.mBufferAllocation.size]

(***************************************************************************)
(* Specifications                                                          *)
(***************************************************************************)
InitGlobals ==
    [mRingBlocks |-> <<>>, mBufferBlocks |-> <<>>, mCombinedBlocks |-> <<>>,
     mLock |-> 0, mInitialized |-> FALSE, mControlOps |-> 0, foreign |-> {},
     regions |-> {}, heap |-> {}, mappings |-> {}, unregistered |-> 0, written |-> {}]

\* The snapshot thread is idle; nothing has been saved. paused: preSave has sent
\* PausePreSnapshot and postSave has not run since
InitSnap ==
    [pc |-> "idle", stream |-> <<>>, pos |-> 1, ok |-> TRUE, todo |-> {}, paused |-> FALSE,
     saved |-> [globals |-> InitGlobals, ctx |-> [c \in Ctxs |-> DefaultContext]]]

\* RecurrentTask after construction: mInFlight = false, the timer created and
\* not started; nothing runs on the looper thread
InitTask ==
    [mInFlight |-> FALSE, timer |-> FALSE, looper |-> "idle", stopped |-> FALSE,
     runningWhenStopped |-> FALSE, destroyed |-> FALSE, runs |-> 0]

\* No directory stream is open
InitDir ==
    [open |-> FALSE, listing |-> <<>>, handle |-> 0, first |-> TRUE, end_reached |-> FALSE,
     current_position |-> 0, errno |-> "0", ret |-> ""]

Init ==
    /\ globals = InitGlobals
    /\ ctx = [c \in Ctxs |-> DefaultContext]
    /\ mConsumerMessages = [c \in Ctxs |-> <<>>]
    /\ consumers = [k \in 1..MaxConsumers |-> DefaultConsumer]
    /\ aborted = ""
    /\ lastCall = NoCall
    /\ snap = InitSnap
    /\ task = InitTask
    /\ dir = InitDir

\* Contexts without consumers, created and destroyed in any order
NextAlloc ==
    /\ \E c \in Ctxs :
          \/ \E create \in CreateInfos(c) : ~create.createRenderThread /\ Construct(c, create)
          \/ Destroy(c)
    /\ UNCHANGED <<snap, task, dir>>

SpecAlloc == Init /\ [][NextAlloc]_vars

\* The same, and clear() at any time
NextPool == NextAlloc \/ (Clear /\ UNCHANGED <<snap, task, dir>>)

SpecPool == Init /\ [][NextPool]_vars

\* NumCtx contexts, each created once and destroyed once
NextThree ==
    /\ \E c \in Ctxs :
          \/ \E create \in CreateInfos(c) : ~create.createRenderThread /\ Construct(c, create)
          \/ Close(c)
    /\ UNCHANGED <<snap, task, dir>>

SpecThree == Init /\ [][NextThree]_vars

(***************************************************************************)
(* Properties of the pools                                                 *)
(***************************************************************************)
\* The live Allocations that own memory: <<context, pool, Allocation>>
LiveAllocations ==
    UNION {{<<c, a[1], a[2]>> : a \in OwnedAllocations(ctx[c])} :
              c \in {d \in Ctxs : ctx[d].pc = "live"}}

\* The blocks (1-based positions) of pool p that are in use and contain Allocation a
BlocksHolding(p, a) ==
    {i \in 1..Len(globals[p]) :
        /\ ~globals[p][i].isEmpty
        /\ globals[p][i].buffer = a.buffer[1]
        /\ a.buffer[2] + a.size <= globals[p][i].bufferSize}

Overlap(a, b) ==
    /\ a.buffer[1] = b.buffer[1]
    /\ a.buffer[2] < b.buffer[2] + b.size
    /\ b.buffer[2] < a.buffer[2] + a.size

\* C1: every live non-view Allocation lies entirely inside exactly one block in use
\* of its pool - the one its blockIndex names, where the SubAllocator has the range
\* recorded - and no two live non-view Allocations of a pool overlap; also after
\* freed ranges and destroyed slots have been reused.
C1_AllocationsDisjointInOneBlock ==
    /\ \A x \in LiveAllocations :
          /\ x[3].size > 0
          /\ BlocksHolding(x[2], x[3]) = {x[3].blockIndex + 1}
          /\ <<x[3].buffer[2], x[3].size>> \in globals[x[2]][x[3].blockIndex + 1].subAlloc
    /\ \A x, y \in LiveAllocations :
          (x # y /\ x[2] = y[2]) => (x[1] # y[1] /\ ~Overlap(x[3], y[3]))

\* C1 witness: the last constructor was given a range freed earlier, below a range
\* still in use, with at least two other contexts alive
C1_ReusedRange ==
    /\ lastCall.reused
    /\ Cardinality({c \in Ctxs : ctx[c].pc = "live"}) >= 3

\* Block i of pool p is in use before the step and destroyed by it (marked empty,
\* or gone with the vector that clear() empties)
DestroyedByStep(p, i) ==
    /\ i \in 1..Len(globals[p])
    /\ ~globals[p][i].isEmpty
    /\ (i > Len(globals'[p]) \/ globals'[p][i].isEmpty)

\* The contexts of C that are alive with an Allocation in block i of pool p
LiveIn(C, p, i) ==
    {c \in Ctxs : /\ C[c].pc = "live"
                  /\ \E a \in OwnedAllocations(C[c]) : a[1] = p /\ a[2].blockIndex = i - 1}

\* C2 as stated: a block is destroyed exactly when its SubAllocator is empty and it
\* is not external and no unfreed Allocation references it - in particular never
\* while an Allocation that was alive and is not being freed lies in it.
C2_DestroyedOnlyEmptyNonExternal ==
    [][\A p \in Pools : \A i \in 1..Len(globals[p]) :
          /\ DestroyedByStep(p, i) =>
                /\ ~globals[p][i].external
                /\ \A c \in LiveIn(ctx, p, i) : ctx'[c].pc = "none"
          /\ (/\ ~globals[p][i].isEmpty
              /\ ~globals[p][i].external
              /\ LiveIn(ctx, p, i) # {}
              /\ \A c \in LiveIn(ctx, p, i) : ctx'[c].pc = "none") => DestroyedByStep(p, i)
      ]_vars

\* C2 as the code has it: deleteAllocation destroys a block exactly when the
\* Allocation freed was the last one alive in it - an external block too, without
\* asking its SubAllocator, a non-external block when its SubAllocator has become
\* empty - and never while another live Allocation lies in it; clear() destroys every
\* block in use, whether or not live Allocations lie in it.
C2_DestroyedWhenLastFreedOrCleared ==
    [][\A p \in Pools : \A i \in 1..Len(globals[p]) :
          ~globals[p][i].isEmpty =>
             IF lastCall'.op = "clear"
             THEN DestroyedByStep(p, i)
             ELSE /\ DestroyedByStep(p, i) <=> LiveIn(ctx', p, i) = {}
                  /\ DestroyedByStep(p, i) =>
                        \/ globals[p][i].external
                        \/ \A u \in globals[p][i].subAlloc :
                              \E c \in LiveIn(ctx, p, i) \ LiveIn(ctx', p, i) :
                                 \E a \in OwnedAllocations(ctx[c]) :
                                    a[1] = p /\ a[2].buffer[2] = u[1]
                  /\ globals'[p][i].subAlloc = {} => DestroyedByStep(p, i)
      ]_vars

\* C2 witness: a destructor has just destroyed a block, leaving its slot empty,
\* while another block of the same pool stays in use with a live Allocation
C2_BlockDestroyedByFree ==
    /\ lastCall.op = "free"
    /\ \E p \in Pools : \E i, j \in 1..Len(globals[p]) :
          /\ globals[p][i].isEmpty
          /\ ~globals[p][j].isEmpty
          /\ LiveIn(ctx, p, j) # {}

\* The size of one context's Allocation in a pool of non-virtio contexts
PerContextSize(p) == IF p = "mRingBlocks" THEN RingSize ELSE PerContextBufferSize

AllClosedNonVirtio == \A c \in Ctxs : ctx[c].pc = "closed" /\ ~ctx[c].mVirtioGpuInfo

\* C3 as stated: after NumCtx non-virtio contexts were created from empty pools and
\* all destroyed, the ring pool and the buffer pool have zero blocks.
C3_PoolsHaveZeroBlocks ==
    AllClosedNonVirtio => Len(globals.mRingBlocks) = 0 /\ Len(globals.mBufferBlocks) = 0

\* C3 as the code has it: when NumCtx times the per-context size fits in BLOCK_SIZE,
\* the Allocations of all non-virtio contexts of a pool lie in its first block; when
\* all contexts are destroyed every block of the pools is destroyed - its memory
\* unmapped and freed - and its slot stays in the pool, marked empty.
C3_OneBlockThenEmptySlot ==
    /\ \A p \in {"mRingBlocks", "mBufferBlocks"} :
          NumCtx * PerContextSize(p) <= BLOCK_SIZE =>
             /\ Len(globals[p]) <= 1
             /\ \A x \in LiveAllocations : x[2] = p => x[3].blockIndex = 0
    /\ (\A c \in Ctxs : ctx[c].pc = "closed") =>
          /\ \A p \in Pools : \A i \in 1..Len(globals[p]) : globals[p][i].isEmpty
          /\ globals.heap = {} /\ globals.regions = {} /\ globals.mappings = {}
    /\ AllClosedNonVirtio =>
          /\ Len(globals.mRingBlocks) >= 1 /\ Len(globals.mBufferBlocks) >= 1
          /\ NumCtx * RingSize <= BLOCK_SIZE => Len(globals.mRingBlocks) = 1

\* C3 witness: all contexts were non-virtio and are destroyed; the ring pool is one
\* destroyed slot
C3_AllDestroyed ==
    /\ AllClosedNonVirtio
    /\ NumCtx * RingSize <= BLOCK_SIZE
    /\ Len(globals.mRingBlocks) = 1
    /\ globals.mRingBlocks[1].isEmpty

\* C4: freeRingStorage and freeBuffer on the views of a virtio context, once or
\* repeatedly and in the destructor's order, return without touching Globals - the
\* block's SubAllocator, its isEmpty flag and the pools are what they were - and
\* freeRingAndBuffer on the combined Allocation is what destroys the block.
C4_ViewFreeIsNoOp ==
    \A c \in Ctxs : (ctx[c].pc = "live" /\ ctx[c].mVirtioGpuInfo) =>
        LET b == freeBuffer(globals, ctx[c].mBufferAllocation)
            r == freeRingStorage(b.G, ctx[c].mRingAllocation)
            b2 == freeBuffer(r.G, ctx[c].mBufferAllocation)
            r2 == freeRingStorage(b2.G, ctx[c].mRingAllocation)
            k == freeRingAndBuffer(r2.G, ctx[c].mCombinedAllocation)
            i == ctx[c].mCombinedAllocation.blockIndex + 1
        IN  /\ ctx[c].mRingAllocation.isView /\ ctx[c].mBufferAllocation.isView
            /\ b.abort = "" /\ r.abort = "" /\ b2.abort = "" /\ r2.abort = ""
            /\ b.G = globals /\ r.G = globals /\ b2.G = globals /\ r2.G = globals
            /\ ~globals.mCombinedBlocks[i].isEmpty
            /\ k.abort = ""
            /\ k.G.mCombinedBlocks[i].isEmpty
            /\ k.G = ContextRelease(globals, ctx[c]).G

\* C4 witness: a virtio context is alive next to the slot that the destructor of
\* another virtio context has emptied
C4_VirtioContextAlive ==
    /\ lastCall.op = "free"
    /\ \E c \in Ctxs : ctx[c].pc = "live" /\ ctx[c].mVirtioGpuInfo
    /\ \E i \in 1..Len(globals.mCombinedBlocks) : globals.mCombinedBlocks[i].isEmpty

\* The live virtio contexts
VirtioContexts == {c \in Ctxs : ctx[c].pc = "live" /\ ctx[c].mVirtioGpuInfo}

\* C5 as stated: the offset that GET_BUFFER reports is the one GET_RING reports plus
\* the ring-header size.
C5_GetBufferOffsetPastRing ==
    \A c \in VirtioContexts :
        performGetBuffer(ctx[c]).metadata = performGetRing(ctx[c]).metadata + RingSize

\* C5 as the code has it: the ring view points at the start of the combined
\* Allocation and the buffer view RingSize past it, both carry the combined
\* Allocation's hostmem id and dedicated handle (the context's), and GET_RING and
\* GET_BUFFER report one and the same offset, the combined Allocation's offsetIntoPhys.
C5_ViewsIntoCombined ==
    \A c \in VirtioContexts :
        LET k == ctx[c].mCombinedAllocation
            r == ctx[c].mRingAllocation
            b == ctx[c].mBufferAllocation
        IN  /\ k.buffer # NullPtr /\ ~k.isView /\ k.dedicatedContextHandle = c
            /\ r.buffer[1] = k.buffer[1] /\ r.buffer[2] - k.buffer[2] = 0
            /\ b.buffer[1] = k.buffer[1] /\ b.buffer[2] - k.buffer[2] = RingSize
            /\ r.size = RingSize /\ b.size = PerContextBufferSize
            /\ b.buffer[2] + b.size <= k.buffer[2] + k.size
            /\ r.hostmemId = k.hostmemId /\ b.hostmemId = k.hostmemId
            /\ r.dedicatedContextHandle = k.dedicatedContextHandle
            /\ b.dedicatedContextHandle = k.dedicatedContextHandle
            /\ performGetRing(ctx[c]) = [metadata |-> k.offsetIntoPhys, size |-> RingSize]
            /\ performGetBuffer(ctx[c]) =
                  [metadata |-> k.offsetIntoPhys, size |-> PerContextBufferSize]

\* C5 witness: a virtio context created over external memory larger than it needs
C5_VirtioContextCreated ==
    \E c \in VirtioContexts :
        /\ lastCall.op = "new"
        /\ ctx[c].mCombinedAllocation.size > RingSize + PerContextBufferSize
        /\ ctx[c].mBufferAllocation.buffer[2] = RingSize

(***************************************************************************)
(* The consumer side: message channel, onUnavailableRead, perform, and the *)
(* destructor of a context that has a consumer                             *)
(***************************************************************************)
ChannelCap == 2

\* The ping / consumer protocol is followed on one context: channel, counter, flags
\* and consumer handle are members of the context, and contexts share only Globals
Rendering == {Min(Ctxs)}

kMaxUnavailableReads == 8

\* A threshold test that does not look at mExiting
reachedMaxOfCounterOnly(count, exiting) == count >= kMaxUnavailableReads

\* A threshold test that lets the counter pass the maximum by one and ignores mExiting
reachedPastMaxUnavailableReads(count, exiting) == count > kMaxUnavailableReads

\* onUnavailableRead, after the increment: whether the call goes to the blocking
\* receive (mExiting forces the counter to the maximum)
reachedMaxUnavailableReads(count, exiting) ==
    (IF exiting # 0 THEN kMaxUnavailableReads ELSE count) >= kMaxUnavailableReads

\* A switch whose Exit case goes back to the blocking receive
onCommandExitSleeps(cmd) ==
    CASE cmd = "Wakeup" -> [ret |-> 1, pc |-> "run", host_state |-> "CAN_CONSUME"]
      [] cmd = "Exit" -> [ret |-> 0, pc |-> "sleep", host_state |-> "EXIT"]
      [] cmd = "Sleep" -> [ret |-> 0, pc |-> "sleep", host_state |-> ""]
      [] cmd = "PausePreSnapshot" -> [ret |-> -2, pc |-> "run", host_state |-> ""]
      [] cmd = "ResumePostSnapshot" -> [ret |-> -3, pc |-> "run", host_state |-> ""]

\* A receive that answers Exit like Wakeup
onCommandWakeupOnly(cmd) == [ret |-> 1, pc |-> "run", host_state |-> "CAN_CONSUME"]

\* A switch whose Sleep case wakes the consumer up like Wakeup
onCommandSleepWakes(cmd) ==
    CASE cmd \in {"Wakeup", "Sleep"} -> [ret |-> 1, pc |-> "run", host_state |-> "CAN_CONSUME"]
      [] cmd = "Exit" -> [ret |-> -1, pc |-> "stopped", host_state |-> "EXIT"]
      [] cmd = "PausePreSnapshot" -> [ret |-> -2, pc |-> "run", host_state |-> ""]
      [] cmd = "ResumePostSnapshot" -> [ret |-> -3, pc |-> "run", host_state |-> ""]

\* A switch whose Sleep case returns to the caller without touching the host state
onCommandSleepReturns(cmd) ==
    CASE cmd = "Wakeup" -> [ret |-> 1, pc |-> "run", host_state |-> "CAN_CONSUME"]
      [] cmd = "Exit" -> [ret |-> -1, pc |-> "stopped", host_state |-> "EXIT"]
      [] cmd = "Sleep" -> [ret |-> 1, pc |-> "run", host_state |-> ""]
      [] cmd = "PausePreSnapshot" -> [ret |-> -2, pc |-> "run", host_state |-> ""]
      [] cmd = "ResumePostSnapshot" -> [ret |-> -3, pc |-> "run", host_state |-> ""]

\* onUnavailableRead, the switch on the received command: the value returned, where
\* the consumer thread goes (a consumer that is told to stop ends its loop), and the
\* host state written ("" when none is)
onCommand(cmd) ==
    CASE cmd = "Wakeup" -> [ret |-> 1, pc |-> "run", host_state |-> "CAN_CONSUME"]
      [] cmd = "Exit" -> [ret |-> -1, pc |-> "stopped", host_state |-> "EXIT"]
      [] cmd = "Sleep" -> [ret |-> 0, pc |-> "sleep", host_state |-> ""]
      [] cmd = "PausePreSnapshot" -> [ret |-> -2, pc |-> "run", host_state |-> ""]
      [] cmd = "ResumePostSnapshot" -> [ret |-> -3, pc |-> "run", host_state |-> ""]

\* MessageChannel::send blocks while the channel is full; trySend drops the message
CanSend(c) == Len(mConsumerMessages[c]) < ChannelCap

\* The consumers blocked in receive on the channel of context c
Blocked(c) ==
    {k \in 1..MaxConsumers :
        consumers[k].owner = c /\ consumers[k].pc = "recv" /\ mConsumerMessages[c] = <<>>}

\* A consumer thread finds nothing to read and calls onUnavailableRead:
\* ++mUnavailableReadCount
ConsumerCall(k) ==
    LET c == consumers[k].owner
    IN  /\ aborted = ""
        /\ consumers[k].pc = "run"
        /\ ctx[c].pc # "closed"
        /\ consumers' = [consumers EXCEPT ![k].pc = "check", ![k].ret = 0]
        /\ ctx' = [ctx EXCEPT ![c].mUnavailableReadCount = @ + 1]
        /\ UNCHANGED <<globals, mConsumerMessages, aborted, lastCall>>

\* onUnavailableRead: the test of mExiting and of the counter
ConsumerCheck(k) ==
    LET c == consumers[k].owner
    IN  /\ aborted = ""
        /\ consumers[k].pc = "check"
        /\ ctx[c].pc # "closed"
        /\ IF reachedMaxUnavailableReads(ctx[c].mUnavailableReadCount, ctx[c].mExiting)
           THEN /\ ctx' = [ctx EXCEPT ![c].mUnavailableReadCount = 0]
                /\ consumers' = [consumers EXCEPT ![k].pc = "sleep"]
           ELSE /\ ctx' = ctx
                /\ consumers' = [consumers EXCEPT ![k].pc = "run", ![k].ret = 0]
        /\ UNCHANGED <<globals, mConsumerMessages, aborted, lastCall>>

\* onUnavailableRead, label sleep: host state NEED_NOTIFY, then the blocking receive
ConsumerSleep(k) ==
    LET c == consumers[k].owner
    IN  /\ aborted = ""
        /\ consumers[k].pc = "sleep"
        /\ ctx[c].pc # "closed"
        /\ ctx' = [ctx EXCEPT ![c].host_state = "NEED_NOTIFY"]
        /\ consumers' = [consumers EXCEPT ![k].pc = "recv"]
        /\ UNCHANGED <<globals, mConsumerMessages, aborted, lastCall>>

\* onUnavailableRead: receive returns a command
ConsumerReceive(k) ==
    LET c == consumers[k].owner
    IN  /\ aborted = ""
        /\ consumers[k].pc = "recv"
        /\ ctx[c].pc # "closed"
        /\ mConsumerMessages[c] # <<>>
        /\ LET r == onCommand(Head(mConsumerMessages[c]))
           IN  /\ consumers' = [consumers EXCEPT ![k].pc = r.pc, ![k].ret = r.ret]
               /\ ctx' = IF r.host_state = "" THEN ctx
                         ELSE [ctx EXCEPT ![c].host_state = r.host_state]
        /\ mConsumerMessages' = [mConsumerMessages EXCEPT ![c] = Tail(@)]
        /\ UNCHANGED <<globals, aborted, lastCall>>

\* perform(ASG_SET_VERSION) with guest version g: creates a consumer
SetVersion(c, g) ==
    /\ aborted = ""
    /\ ctx[c].pc = "live"
    /\ FreeConsumers # {}
    /\ LET k == Min(FreeConsumers)
           version == IF ctx[c].mVersion > g THEN g ELSE ctx[c].mVersion
       IN  /\ ctx' = [ctx EXCEPT ![c].mVersion = version, ![c].mCurrentConsumer = k]
           /\ consumers' = [consumers EXCEPT ![k] =
                               [DefaultConsumer EXCEPT !.owner = c, !.pc = "run"]]
    /\ UNCHANGED <<globals, mConsumerMessages, aborted, lastCall>>

\* perform(ASG_NOTIFY_AVAILABLE): trySend(Wakeup)
NotifyAvailable(c) ==
    /\ aborted = ""
    /\ ctx[c].pc = "live"
    /\ mConsumerMessages' = [mConsumerMessages EXCEPT ![c] =
                                IF CanSend(c) THEN Append(@, "Wakeup") ELSE @]
    /\ UNCHANGED <<globals, ctx, consumers, aborted, lastCall>>

\* ~AddressSpaceGraphicsContext of a context with a consumer: mExiting = 1
DtorExiting(c) ==
    /\ aborted = ""
    /\ ctx[c].pc = "live"
    /\ ctx[c].mCurrentConsumer # 0
    /\ ctx' = [ctx EXCEPT ![c].mExiting = 1, ![c].pc = "dtor_state"]
    /\ UNCHANGED <<globals, mConsumerMessages, consumers, aborted, lastCall>>

\* ... *(mHostContext.host_state) = ASG_HOST_STATE_EXIT
DtorHostState(c) ==
    /\ aborted = ""
    /\ ctx[c].pc = "dtor_state"
    /\ ctx' = [ctx EXCEPT ![c].host_state = "EXIT", ![c].pc = "dtor_send"]
    /\ UNCHANGED <<globals, mConsumerMessages, consumers, aborted, lastCall>>

\* ... mConsumerMessages.send(ConsumerCommand::Exit)
DtorSend(c) ==
    /\ aborted = ""
    /\ ctx[c].pc = "dtor_send"
    /\ CanSend(c)
    /\ mConsumerMessages' = [mConsumerMessages EXCEPT ![c] = Append(@, "Exit")]
    /\ ctx' = [ctx EXCEPT ![c].pc = "dtor_destroy"]
    /\ lastCall' = [NoCall EXCEPT !.op = "exit", !.waiting = Blocked(c)]
    /\ UNCHANGED <<globals, consumers, aborted>>

\* ... mConsumerInterface.destroy(mCurrentConsumer): returns when the consumer's
\* thread has ended
DtorDestroy(c) ==
    /\ aborted = ""
    /\ ctx[c].pc = "dtor_destroy"
    /\ consumers[ctx[c].mCurrentConsumer].pc = "stopped"
    /\ consumers' = [consumers EXCEPT ![ctx[c].mCurrentConsumer].pc = "destroyed"]
    /\ ctx' = [ctx EXCEPT ![c].pc = "dtor_free"]
    /\ UNCHANGED <<globals, mConsumerMessages, aborted, lastCall>>

\* ... freeBuffer, freeRingStorage, freeRingAndBuffer
DtorReleased(c, r) ==
    IF r.abort # ""
    THEN /\ aborted' = r.abort
         /\ UNCHANGED <<globals, ctx, lastCall>>
    ELSE /\ globals' = r.G
         /\ ctx' = [ctx EXCEPT ![c].pc = "closed"]
         /\ lastCall' = [NoCall EXCEPT !.op = "free"]
         /\ UNCHANGED aborted

DtorFree(c) ==
    /\ aborted = ""
    /\ ctx[c].pc = "dtor_free"
    /\ DtorReleased(c, ContextRelease(globals, ctx[c]))
    /\ UNCHANGED <<mConsumerMessages, consumers>>

\* The guest-facing thread and the consumer threads of the rendering contexts
NextCtx ==
    /\ \/ \E c \in Rendering :
             \/ \E t \in BOOLEAN :
                   Construct(c, [GraphicsCreate EXCEPT !.createRenderThread = t])
             \/ SetVersion(c, HostVersion)
             \/ NotifyAvailable(c)
             \/ Close(c)
             \/ DtorExiting(c)
             \/ DtorHostState(c)
             \/ DtorSend(c)
             \/ DtorDestroy(c)
             \/ DtorFree(c)
       \/ \E k \in 1..MaxConsumers :
             \/ ConsumerCall(k)
             \/ ConsumerCheck(k)
             \/ ConsumerSleep(k)
             \/ ConsumerReceive(k)
    /\ UNCHANGED <<snap, task, dir>>

SpecCtx == Init /\ [][NextCtx]_vars

(***************************************************************************)
(* Properties of the consumer protocol                                     *)
(***************************************************************************)
\* Consumer k is the only consumer ever created for its context
Sole(k) ==
    \A j \in 1..MaxConsumers : j # k => consumers[j].owner # consumers[k].owner

\* Consumer k takes a step of onUnavailableRead from pc `from`
Moves(k, from) == consumers[k].pc = from /\ consumers'[k] # consumers[k]

C7_ExitStopsBlockedConsumer ==
    [][\A k \in 1..MaxConsumers :
          LET c == consumers[k].owner
          IN  /\ (Moves(k, "recv") /\ Head(mConsumerMessages[c]) = "Exit") =>
                    /\ consumers'[k] = [consumers[k] EXCEPT !.pc = "stopped", !.ret = -1]
                    /\ ctx' = [ctx EXCEPT ![c].host_state = "EXIT"]
                    /\ mConsumerMessages'[c] = Tail(mConsumerMessages[c])
              /\ (Moves(k, "recv") /\ lastCall.op = "exit" /\ k \in lastCall.waiting) =>
                    consumers'[k].pc = "stopped" /\ consumers'[k].ret = -1
              /\ Moves(k, "stopped") =>
                    consumers'[k] = [consumers[k] EXCEPT !.pc = "destroyed"]
      ]_vars

\* C7 witness: a consumer that was blocked in receive when the destructor sent Exit
\* has returned -1 and stopped, the host state is EXIT
C7_BlockedConsumerStopped ==
    \E k \in lastCall.waiting :
        /\ lastCall.op = "exit"
        /\ consumers[k].pc = "stopped" /\ consumers[k].ret = -1
        /\ ctx[consumers[k].owner].host_state = "EXIT"

\* The consumer threads of context c that have not ended
Running(c) ==
    {k \in 1..MaxConsumers :
        consumers[k].owner = c /\ consumers[k].pc \notin {"stopped", "destroyed"}}

\* C9: the destructor of a context with a consumer sets mExiting, then forces the
\* host state to EXIT, then sends Exit, then destroys the consumer, and releases the
\* Allocations only after that, so that no consumer thread of the context is still
\* running once its Allocations are released; a context without a consumer sends
\* no Exit.
C9_NoConsumerRunsAfterRelease ==
    \A c \in Ctxs :
        /\ ctx[c].pc \in {"dtor_state", "dtor_send", "dtor_destroy", "dtor_free"} =>
              ctx[c].mExiting = 1 /\ ctx[c].mCurrentConsumer # 0
        /\ ctx[c].pc \in {"dtor_destroy", "dtor_free"} =>
              \/ "Exit" \in {mConsumerMessages[c][i] : i \in 1..Len(mConsumerMessages[c])}
              \/ \E k \in 1..MaxConsumers : consumers[k].owner = c /\ consumers[k].ret = -1
        /\ ctx[c].pc = "dtor_free" => consumers[ctx[c].mCurrentConsumer].pc = "destroyed"
        /\ ctx[c].pc = "closed" => Running(c) = {}
        /\ (\A k \in 1..MaxConsumers : consumers[k].owner # c) =>
              "Exit" \notin {mConsumerMessages[c][i] : i \in 1..Len(mConsumerMessages[c])}

(***************************************************************************)
(* Snapshot: the stream                                                    *)
(* A stream is the sequence of the fields written to it, each a pair       *)
(* <<kind, value>>: "Be32" and "Be64" for putBe32 and putBe64, "bytes" for *)
(* write(buffer, size), "SubAllocator" and "consumer" for what the         *)
(* SubAllocator and the consumer interface write themselves. A get reads   *)
(* the field at a position; when that field was written by a different put *)
(* the bytes read are not the value written (-1 here).                     *)
(***************************************************************************)
putBe32(v) == <<"Be32", v>>

putBe64(v) == <<"Be64", v>>

Has(stream, pos, kind) == pos \in DOMAIN stream /\ stream[pos][1] = kind

getBe32(stream, pos) == IF Has(stream, pos, "Be32") THEN stream[pos][2] ELSE -1

getBe64(stream, pos) == IF Has(stream, pos, "Be64") THEN stream[pos][2] ELSE -1

\* Whether the reads made from pos on, of the kinds given, each meet a field of its kind
Kinds(stream, pos, kinds) == \A j \in DOMAIN kinds : Has(stream, pos + j - 1, kinds[j])

\* SubAllocator::save and SubAllocator::load
SubAllocSave(used) == <<"SubAllocator", used>>

SubAllocLoad(stream, pos) == IF Has(stream, pos, "SubAllocator") THEN stream[pos][2] ELSE {}

\* The contents of a block's buffer: whether it holds data the guest wrote
Contents(G, block) == block.buffer \in G.written

readBytes(stream, pos) == Has(stream, pos, "bytes") /\ stream[pos][2]

(***************************************************************************)
(* Snapshot: Globals                                                       *)
(***************************************************************************)
\* A saveBlockLocked that writes the offset before the buffer size
saveBlockOffsetFirst(G, block) ==
    IF block.isEmpty THEN <<putBe32(0)>>
    ELSE <<putBe32(1), putBe64(block.offsetIntoPhys), putBe64(block.bufferSize)>>
         \o (IF block.dedicatedContextHandle # NoHandle
             THEN <<putBe32(1), putBe32(block.dedicatedContextHandle)>>
             ELSE <<putBe32(0)>>)
         \o <<putBe32(IF block.usesVirtioGpuHostmem THEN 1 ELSE 0),
              putBe64(block.hostmemId),
              SubAllocSave(block.subAlloc)>>
         \o (IF ~block.external THEN <<<<"bytes", Contents(G, block)>>>> ELSE <<>>)

saveBlockLocked(G, block) ==
    IF block.isEmpty THEN <<putBe32(0)>>
    ELSE <<putBe32(1), putBe64(block.bufferSize), putBe64(block.offsetIntoPhys)>>
         \o (IF block.dedicatedContextHandle # NoHandle
             THEN <<putBe32(1), putBe32(block.dedicatedContextHandle)>>
             ELSE <<putBe32(0)>>)
         \o <<putBe32(IF block.usesVirtioGpuHostmem THEN 1 ELSE 0),
              putBe64(block.hostmemId),
              SubAllocSave(block.subAlloc)>>
         \o (IF ~block.external THEN <<<<"bytes", Contents(G, block)>>>> ELSE <<>>)

\* Globals::save, one pool, from block i on
RECURSIVE savePool(_, _, _)
savePool(G, pool, i) ==
    IF i > Len(G[pool]) THEN <<>>
    ELSE saveBlockLocked(G, G[pool][i]) \o savePool(G, pool, i + 1)

GlobalsSave(G) ==
    <<putBe64(Len(G.mRingBlocks)), putBe64(Len(G.mBufferBlocks)),
      putBe64(Len(G.mCombinedBlocks))>>
    \o savePool(G, "mRingBlocks", 1)
    \o savePool(G, "mBufferBlocks", 1)
    \o savePool(G, "mCombinedBlocks", 1)

\* std::optional<AddressSpaceDeviceLoadResources>: whether the caller passes
\* resources, and the dedicated handles that contextExternalMemoryMap has an entry
\* for. The caller reloads the external memory of handle h where it was.
ExternalAddress(h) == ExtBase + h

LoadResources ==
    {[present |-> FALSE, handles |-> {}], [present |-> TRUE, handles |-> 1..NumVirtioCtx]}

\* What load has done so far: the pools, the read position, whether every read met
\* a field of its kind, the crashhandler_die that ended it
Loading(G, pos) == [G |-> G, pos |-> pos, ok |-> TRUE, abort |-> ""]

\* loadBlockLocked of a filled block, after fillBlockLocked: `f` is its result,
\* `at` the position of the hostmem id, `kinds` the fields read before it
loadBlockFilled(r, stream, pool, i, at, kinds, f) ==
    LET block == [f.block EXCEPT !.subAlloc = SubAllocLoad(stream, at + 1)]
        G1 == [f.G EXCEPT ![pool][i] = block]
    IN  IF f.abort # "" THEN [r EXCEPT !.abort = f.abort]
        ELSE IF block.external
        THEN [r EXCEPT !.G = G1, !.pos = at + 2,
                       !.ok = @ /\ Kinds(stream, r.pos, kinds \o <<"Be64", "SubAllocator">>)]
        ELSE [r EXCEPT !.G = [G1 EXCEPT !.written =
                                 IF readBytes(stream, at + 2)
                                 THEN @ \cup {block.buffer} ELSE @ \ {block.buffer}],
                       !.pos = at + 3,
                       !.ok = @ /\ Kinds(stream, r.pos,
                                         kinds \o <<"Be64", "SubAllocator", "bytes">>)]

\* A loadBlockLocked that rebuilds a virtio block without looking at the resources
loadBlockAtWithoutResources(r, stream, resources, pool, i, at, kinds, handle) ==
    LET virtioGpu == getBe32(stream, at) # 0
        create == [ZeroCreateInfo EXCEPT
                     !.size = getBe64(stream, r.pos + 1),
                     !.dedicatedContextHandle = handle,
                     !.virtioGpu = virtioGpu,
                     !.externalAddr = IF virtioGpu THEN ExternalAddress(handle) ELSE NullBuf,
                     !.hostmemRegisterFixed = TRUE,
                     !.fromLoad = TRUE,
                     !.hostmemId = getBe64(stream, at + 1)]
        block == [r.G[pool][i] EXCEPT !.isEmpty = FALSE,
                                      !.offsetIntoPhys = getBe64(stream, r.pos + 2)]
    IN  IF virtioGpu /\ handle = NoHandle
        THEN [r EXCEPT !.abort = "Virtio GPU backed blocks are expected to have dedicated context."]
        ELSE loadBlockFilled(r, stream, pool, i, at + 1, kinds \o <<"Be32">>,
                             fillBlockLocked(r.G, block, create))

\* loadBlockLocked of a filled block: `at` is the position of usesVirtioGpuHostmem,
\* `handle` the dedicated handle read before it
loadBlockAt(r, stream, resources, pool, i, at, kinds, handle) ==
    LET virtioGpu == getBe32(stream, at) # 0
        create == [ZeroCreateInfo EXCEPT
                     !.size = getBe64(stream, r.pos + 1),
                     !.dedicatedContextHandle = handle,
                     !.virtioGpu = virtioGpu,
                     !.externalAddr = IF virtioGpu THEN ExternalAddress(handle) ELSE NullBuf,
                     !.hostmemRegisterFixed = TRUE,
                     !.fromLoad = TRUE,
                     !.hostmemId = getBe64(stream, at + 1)]
        block == [r.G[pool][i] EXCEPT !.isEmpty = FALSE,
                                      !.offsetIntoPhys = getBe64(stream, r.pos + 2)]
    IN  IF virtioGpu /\ handle = NoHandle
        THEN [r EXCEPT !.abort = "Virtio GPU backed blocks are expected to have dedicated context."]
        ELSE IF virtioGpu /\ ~resources.present
        THEN [r EXCEPT !.abort = "Virtio GPU backed blocks need external memory resources for loading."]
        ELSE IF virtioGpu /\ handle \notin resources.handles
        THEN [r EXCEPT !.abort = "Virtio GPU backed blocks an need external memory replacement."]
        ELSE loadBlockFilled(r, stream, pool, i, at + 1, kinds \o <<"Be32">>,
                             fillBlockLocked(r.G, block, create))

\* loadBlockLocked on block `i` (1-based position) of `pool`, reading from r.pos
loadBlockLocked(r, stream, resources, pool, i) ==
    IF getBe32(stream, r.pos) = 0
    THEN [r EXCEPT !.G[pool][i].isEmpty = TRUE, !.pos = @ + 1,
                   !.ok = @ /\ Has(stream, r.pos, "Be32")]
    ELSE IF getBe32(stream, r.pos + 3) = 1
    THEN loadBlockAt(r, stream, resources, pool, i, r.pos + 5,
                     <<"Be32", "Be64", "Be64", "Be32", "Be32">>,
                     getBe32(stream, r.pos + 4))
    ELSE loadBlockAt(r, stream, resources, pool, i, r.pos + 4,
                     <<"Be32", "Be64", "Be64", "Be32">>, NoHandle)

\* Globals::load, one pool, from block i on
RECURSIVE loadPool(_, _, _, _, _)
loadPool(r, stream, resources, pool, i) ==
    IF i > Len(r.G[pool]) \/ r.abort # "" THEN r
    ELSE loadPool(loadBlockLocked(r, stream, resources, pool, i),
                  stream, resources, pool, i + 1)

\* Globals::load after clear(): `G` is the cleared Globals
GlobalsLoadCleared(G, stream, resources) ==
    loadPool(
        loadPool(
            loadPool(
                [Loading([G EXCEPT
                            !.mRingBlocks = [i \in 1..getBe64(stream, 1) |-> DefaultBlock],
                            !.mBufferBlocks = [i \in 1..getBe64(stream, 2) |-> DefaultBlock],
                            !.mCombinedBlocks = [i \in 1..getBe64(stream, 3) |-> DefaultBlock]],
                         4)
                   EXCEPT !.ok = Kinds(stream, 1, <<"Be64", "Be64", "Be64">>)],
                stream, resources, "mRingBlocks", 1),
            stream, resources, "mBufferBlocks", 1),
        stream, resources, "mCombinedBlocks", 1)

GlobalsLoad(G, stream, resources) == GlobalsLoadCleared(clear(G), stream, resources)

\* A fillAllocFromLoad that points the Allocation at the start of its block
fillAllocFromLoadAtBlockStart(block, alloc) ==
    [alloc EXCEPT !.buffer = <<block.buffer, 0>>,
                  !.dedicatedContextHandle = block.dedicatedContextHandle,
                  !.hostmemId = block.hostmemId]

fillAllocFromLoadBlock(block, alloc) ==
    [alloc EXCEPT !.buffer = <<block.buffer, alloc.offsetIntoPhys - block.offsetIntoPhys>>,
                  !.dedicatedContextHandle = block.dedicatedContextHandle,
                  !.hostmemId = block.hostmemId]

fillAllocFromLoad(G, alloc, pool) ==
    IF Len(G[pool]) <= alloc.blockIndex THEN alloc
    ELSE fillAllocFromLoadBlock(G[pool][alloc.blockIndex + 1], alloc)

(***************************************************************************)
(* Snapshot: AddressSpaceGraphicsContext                                   *)
(***************************************************************************)
\* A saveRingConfig that writes flush_interval before buffer_size
saveRingConfigSwapped(config) ==
    <<putBe32(config.flush_interval), putBe32(config.buffer_size),
      putBe32(config.host_consumed_pos), putBe32(config.guest_write_pos),
      putBe32(config.transfer_mode), putBe32(config.transfer_size),
      putBe32(config.in_error)>>

saveRingConfig(config) ==
    <<putBe32(config.buffer_size), putBe32(config.flush_interval),
      putBe32(config.host_consumed_pos), putBe32(config.guest_write_pos),
      putBe32(config.transfer_mode), putBe32(config.transfer_size),
      putBe32(config.in_error)>>

saveAllocation(alloc) ==
    <<putBe64(alloc.blockIndex), putBe64(alloc.offsetIntoPhys), putBe64(alloc.size),
      putBe32(IF alloc.isView THEN 1 ELSE 0)>>

loadRingConfig(stream, pos) ==
    [buffer_size |-> getBe32(stream, pos),
     flush_interval |-> getBe32(stream, pos + 1),
     host_consumed_pos |-> getBe32(stream, pos + 2),
     guest_write_pos |-> getBe32(stream, pos + 3),
     transfer_mode |-> getBe32(stream, pos + 4),
     transfer_size |-> getBe32(stream, pos + 5),
     in_error |-> getBe32(stream, pos + 6)]

loadAllocation(stream, pos, alloc) ==
    [alloc EXCEPT !.blockIndex = getBe64(stream, pos),
                  !.offsetIntoPhys = getBe64(stream, pos + 1),
                  !.size = getBe64(stream, pos + 2),
                  !.isView = getBe32(stream, pos + 3) # 0]

\* VirtioGpuInfo: the model leaves virtioGpuContextId and virtioGpuCapsetId at 0 and
\* gives no context a name
VirtioGpuContextId == 0
VirtioGpuCapsetId == 0

\* AddressSpaceGraphicsContext::save
save(obj) ==
    (IF obj.mVirtioGpuInfo
     THEN <<putBe32(1), putBe32(VirtioGpuContextId), putBe32(VirtioGpuCapsetId), putBe32(0)>>
     ELSE <<putBe32(0)>>)
    \o <<putBe32(obj.mVersion), putBe32(obj.mExiting), putBe32(obj.mUnavailableReadCount)>>
    \o saveAllocation(obj.mRingAllocation)
    \o saveAllocation(obj.mBufferAllocation)
    \o saveAllocation(obj.mCombinedAllocation)
    \o saveRingConfig(obj.mSavedConfig)
    \o (IF obj.mCurrentConsumer # 0
        THEN <<putBe32(1), <<"consumer", obj.mCurrentConsumer>>>>
        ELSE <<putBe32(0)>>)

\* The kinds of the fields load reads from the negotiated version on
ContextKinds ==
    <<"Be32", "Be32", "Be32",
      "Be64", "Be64", "Be64", "Be32",
      "Be64", "Be64", "Be64", "Be32",
      "Be64", "Be64", "Be64", "Be32",
      "Be32", "Be32", "Be32", "Be32", "Be32", "Be32", "Be32",
      "Be32">>

\* load from the negotiated version (at position `at`) on, into an object made by the
\* constructor with fromSnapshot. `combined` is mCombinedAllocation as
\* fillAllocFromLoad left it, `header` the ring header and `state` the host state
\* that the ring storage holds.
loadAt(G, stream, pos, at, virtio, combined, header, state) ==
    [obj |-> [DefaultContext EXCEPT
                !.mVirtioGpuInfo = virtio,
                !.mVersion = getBe32(stream, at),
                !.mExiting = getBe32(stream, at + 1),
                !.mUnavailableReadCount = getBe32(stream, at + 2),
                !.mRingAllocation =
                    IF virtio THEN allocRingViewIntoCombined(combined)
                    ELSE fillAllocFromLoad(G, loadAllocation(stream, at + 3, DefaultAllocation),
                                           "mRingBlocks"),
                !.mBufferAllocation =
                    IF virtio THEN allocBufferViewIntoCombined(combined)
                    ELSE fillAllocFromLoad(G, loadAllocation(stream, at + 7, DefaultAllocation),
                                           "mBufferBlocks"),
                !.mCombinedAllocation = combined,
                !.ring_config = [header EXCEPT !.buffer_size = PerContextBufferSize,
                                               !.flush_interval = WriteStepSize],
                !.host_state = state,
                !.mSavedConfig = loadRingConfig(stream, at + 15)],
     hasConsumer |-> getBe32(stream, at + 22) = 1,
     pos |-> IF getBe32(stream, at + 22) = 1 THEN at + 24 ELSE at + 23,
     ok |-> /\ Kinds(stream, pos, [j \in 1..(at - pos) |-> "Be32"])
            /\ Kinds(stream, at, ContextKinds)
            /\ getBe32(stream, at + 22) = 1 => Has(stream, at + 23, "consumer")]

\* load of a context whose virtio-gpu info ends before position `at`
loadFrom(G, stream, pos, at, virtio, header, state) ==
    loadAt(G, stream, pos, at, virtio,
           IF virtio
           THEN fillAllocFromLoad(G, loadAllocation(stream, at + 11, DefaultAllocation),
                                  "mCombinedBlocks")
           ELSE loadAllocation(stream, at + 11, DefaultAllocation),
           header, state)

\* AddressSpaceGraphicsContext::load, reading from `pos`
load(G, stream, pos, header, state) ==
    IF getBe32(stream, pos) = 1
    THEN loadFrom(G, stream, pos,
                  IF getBe32(stream, pos + 3) = 1 THEN pos + 5 ELSE pos + 4,
                  TRUE, header, state)
    ELSE loadFrom(G, stream, pos, pos + 1, FALSE, header, state)

(***************************************************************************)
(* Actions: snapshot                                                       *)
(***************************************************************************)
\* The contexts that exist: constructed and not yet released
Alive(C) == {c \in Ctxs : C[c].pc \in {"live", "dtor_state", "dtor_send"}}

\* The guest writes into the buffer of its context
GuestWrite(c) ==
    /\ aborted = ""
    /\ ctx[c].pc = "live"
    /\ ctx[c].mBufferAllocation.buffer[1] \notin globals.written
    /\ globals' = [globals EXCEPT !.written = @ \cup {ctx[c].mBufferAllocation.buffer[1]}]
    /\ UNCHANGED <<ctx, mConsumerMessages, consumers, aborted, lastCall>>

\* globalStateSave: the stream starts with what Globals::save writes
GlobalStateSave ==
    /\ aborted = ""
    /\ snap.pc = "idle"
    /\ UNCHANGED <<task, dir>>
    /\ snap' = [snap EXCEPT !.pc = IF Alive(ctx) = {} THEN "saved" ELSE "saving",
                            !.stream = GlobalsSave(globals),
                            !.todo = Alive(ctx),
                            !.saved = [globals |-> globals, ctx |-> ctx]]
    /\ UNCHANGED <<globals, ctx, mConsumerMessages, consumers, aborted, lastCall>>

\* save of context c; the contexts are saved in the order of their ids
Save(c) ==
    /\ aborted = ""
    /\ snap.pc = "saving"
    /\ c = Min(snap.todo)
    /\ UNCHANGED <<task, dir>>
    /\ snap' = [snap EXCEPT !.pc = IF snap.todo = {c} THEN "saved" ELSE "saving",
                            !.stream = @ \o save(ctx[c]),
                            !.todo = @ \ {c}]
    /\ UNCHANGED <<globals, ctx, mConsumerMessages, consumers, aborted, lastCall>>

\* globalStateLoad, after its Globals::load returned `r`. The contexts that existed
\* are left with Allocations into blocks that are gone, as after clear.
GlobalStateLoaded(r) ==
    IF r.abort # ""
    THEN /\ aborted' = r.abort
         /\ UNCHANGED <<globals, ctx, mConsumerMessages, consumers, lastCall, snap, task, dir>>
    ELSE /\ globals' = r.G
         /\ ctx' = [c \in Ctxs |-> IF c \in Alive(ctx)
                                   THEN [ctx[c] EXCEPT !.pc = "cleared"] ELSE ctx[c]]
         /\ UNCHANGED <<task, dir>>
         /\ snap' = [snap EXCEPT
                        !.pc = IF Alive(snap.saved.ctx) = {} THEN "loaded" ELSE "loading",
                        !.pos = r.pos,
                        !.ok = r.ok,
                        !.todo = Alive(snap.saved.ctx)]
         /\ UNCHANGED <<mConsumerMessages, consumers, aborted, lastCall>>

GlobalStateLoad(resources) ==
    /\ aborted = ""
    /\ snap.pc = "saved"
    /\ GlobalStateLoaded(GlobalsLoad(globals, snap.stream, resources))

\* load of context c, after the fields were read: `r` is what load returned, `k` the
\* consumer created (0: none)
Loaded(c, r, k) ==
    /\ ctx' = [ctx EXCEPT ![c] = [r.obj EXCEPT !.pc = "live", !.mCurrentConsumer = k]]
    /\ consumers' = IF k = 0 THEN consumers
                    ELSE [consumers EXCEPT ![k] =
                            [DefaultConsumer EXCEPT !.owner = c, !.pc = "run"]]
    /\ mConsumerMessages' = [mConsumerMessages EXCEPT ![c] = <<>>]
    /\ UNCHANGED <<task, dir>>
    /\ snap' = [snap EXCEPT !.pc = IF snap.todo = {c} THEN "loaded" ELSE "loading",
                            !.pos = r.pos,
                            !.ok = @ /\ r.ok,
                            !.todo = @ \ {c}]
    /\ UNCHANGED <<globals, aborted, lastCall>>

LoadRead(c, r) ==
    /\ r.hasConsumer => FreeConsumers # {}
    /\ Loaded(c, r, IF r.hasConsumer THEN Min(FreeConsumers) ELSE 0)

\* A context made with fromSnapshot under id c, and load on it; the contexts are
\* loaded in the order they were saved in. The ring header and the host state are
\* in the ring storage, which Globals::load read back or the caller reloaded.
Load(c) ==
    /\ aborted = ""
    /\ snap.pc = "loading"
    /\ c = Min(snap.todo)
    /\ LoadRead(c, load(globals, snap.stream, snap.pos,
                        snap.saved.ctx[c].ring_config, snap.saved.ctx[c].host_state))

\* The request that makes context c in the snapshot runs: virtio, on external memory
\* of just the size needed, for the contexts from the second to the NumVirtioCtx-th
SnapCreate(c) ==
    IF c \in 2..NumVirtioCtx
    THEN [GraphicsCreate EXCEPT !.type = "VirtioGpuGraphics", !.handle = c,
                                !.externalAddr = ExtBase + c,
                                !.externalAddrSize = RingSize + PerContextBufferSize]
    ELSE GraphicsCreate

\* Contexts created and destroyed, the first one negotiating a version once and
\* served by a consumer, the guest writing into the buffer of the first context and
\* of the last virtio one; then one save of everything and one load of it
NextSnap ==
    \/ /\ snap.pc = "idle"
       /\ \/ \E c \in Ctxs :
               \/ Construct(c, SnapCreate(c))
               \/ Destroy(c)
          \/ \E c \in Rendering \cup {NumVirtioCtx} : GuestWrite(c)
          \/ \E c \in Rendering :
               \/ \E g \in 0..HostVersion :
                     ctx[c].mCurrentConsumer = 0 /\ SetVersion(c, g)
               \/ DtorExiting(c)
          \/ \E k \in 1..MaxConsumers :
               \/ ConsumerCall(k)
               \/ ConsumerCheck(k)
       /\ UNCHANGED <<snap, task, dir>>
    \/ GlobalStateSave
    \/ \E c \in Ctxs : Save(c)
    \/ \E resources \in LoadResources : GlobalStateLoad(resources)
    \/ \E c \in Ctxs : Load(c)

SpecSnap == Init /\ [][NextSnap]_vars

(***************************************************************************)
(* Properties of the snapshot                                              *)
(***************************************************************************)
\* What a block is to the guest: whether the slot is in use, and for a slot in use
\* its size, physical offset, dedicated handle, hostmem id and buffer contents
BlockImage(G, block) ==
    IF block.isEmpty THEN <<"empty">>
    ELSE <<"filled", block.bufferSize, block.offsetIntoPhys, block.dedicatedContextHandle,
           block.hostmemId, block.usesVirtioGpuHostmem, block.external, block.subAlloc,
           Contents(G, block)>>

PoolImage(G, pool) == [i \in 1..Len(G[pool]) |-> BlockImage(G, G[pool][i])]

ContextImage(obj) ==
    <<obj.mVirtioGpuInfo, obj.mVersion, obj.mExiting, obj.mUnavailableReadCount,
      obj.mSavedConfig>>

NumLockThreads == 2

SnapshotThread == NumCtx + 1

\* AutoLock lock(mLock) at the top of newAllocation and deleteAllocation: the thread
\* of context c moves from `from` into the call `to`
AutoLock(c, from, to) ==
    /\ aborted = ""
    /\ ctx[c].pc = from
    /\ globals.mLock = 0
    /\ globals' = [globals EXCEPT !.mLock = c]
    /\ ctx' = [ctx EXCEPT ![c].pc = to]
    /\ UNCHANGED <<mConsumerMessages, consumers, aborted, lastCall, snap, task, dir>>

\* The return of a call made under the lock: `r` is its result, `obj` the context
\* after it
Unlocked(c, r, obj) ==
    IF r.abort # ""
    THEN /\ aborted' = r.abort
         /\ UNCHANGED <<globals, ctx, mConsumerMessages, consumers, lastCall, snap, task, dir>>
    ELSE /\ globals' = [r.G EXCEPT !.mLock = 0]
         /\ ctx' = [ctx EXCEPT ![c] = obj]
         /\ UNCHANGED <<mConsumerMessages, consumers, aborted, lastCall, snap, task, dir>>

\* The constructor of a non-virtio context: allocRingStorage, then allocBuffer
LockAllocRing(c) == AutoLock(c, "none", "allocRingStorage")

AllocRingLocked(c, r) ==
    Unlocked(c, r, [DefaultContext EXCEPT !.pc = "ring", !.mRingAllocation = r.res])

AllocRing(c) ==
    /\ aborted = ""
    /\ ctx[c].pc = "allocRingStorage"
    /\ AllocRingLocked(c, allocRingStorage(globals))

LockAllocBuffer(c) == AutoLock(c, "ring", "allocBuffer")

AllocBufferLocked(c, r) ==
    Unlocked(c, r, [ctx[c] EXCEPT !.pc = "live",
                                  !.mBufferAllocation = r.res,
                                  !.ring_config = InitialRingConfig,
                                  !.mSavedConfig = InitialRingConfig])

AllocBuffer(c) ==
    /\ aborted = ""
    /\ ctx[c].pc = "allocBuffer"
    /\ AllocBufferLocked(c, allocBuffer(globals))

\* The destructor of a non-virtio context without a consumer: freeBuffer, then
\* freeRingStorage (freeRingAndBuffer returns at once, before the lock: the combined
\* Allocation has no buffer)
LockFreeBuffer(c) == ctx[c].mCurrentConsumer = 0 /\ AutoLock(c, "live", "freeBuffer")

FreeBufferLocked(c, r) ==
    Unlocked(c, r, [ctx[c] EXCEPT !.pc = "buffer_freed"])

FreeBuffer(c) ==
    /\ aborted = ""
    /\ ctx[c].pc = "freeBuffer"
    /\ FreeBufferLocked(c, freeBuffer(globals, ctx[c].mBufferAllocation))

LockFreeRing(c) == AutoLock(c, "buffer_freed", "freeRingStorage")

FreeRingLocked(c, r) == Unlocked(c, r, DefaultContext)

FreeRing(c) ==
    /\ aborted = ""
    /\ ctx[c].pc = "freeRingStorage"
    /\ FreeRingLocked(c, freeRingStorage(globals, ctx[c].mRingAllocation))

\* Globals::clear, one of its three loops: the snapshot thread moves from `from` to `to`
ClearBlocks(pool, from, to) ==
    /\ aborted = ""
    /\ snap.pc = from
    /\ globals' = clearPool(globals, pool, 1)
    /\ UNCHANGED <<task, dir>>
    /\ snap' = [snap EXCEPT !.pc = to]
    /\ UNCHANGED <<ctx, mConsumerMessages, consumers, aborted, lastCall>>

ClearRingBlocks == ClearBlocks("mRingBlocks", "idle", "clear_buffer")

ClearBufferBlocks == ClearBlocks("mBufferBlocks", "clear_buffer", "clear_combined")

ClearCombinedBlocks == ClearBlocks("mCombinedBlocks", "clear_combined", "clear_vectors")

\* Globals::clear, the end: the three vectors cleared. The contexts that are
\* constructed are left as after Clear.
ClearVectors ==
    /\ aborted = ""
    /\ snap.pc = "clear_vectors"
    /\ globals' = [globals EXCEPT !.mRingBlocks = <<>>, !.mBufferBlocks = <<>>,
                                  !.mCombinedBlocks = <<>>]
    /\ ctx' = [c \in Ctxs |-> IF ctx[c].pc = "live"
                              THEN [ctx[c] EXCEPT !.pc = "cleared"] ELSE ctx[c]]
    /\ UNCHANGED <<task, dir>>
    /\ snap' = [snap EXCEPT !.pc = "cleared"]
    /\ UNCHANGED <<mConsumerMessages, consumers, aborted, lastCall>>

\* NumLockThreads guest threads constructing and destroying non-virtio contexts, and
\* the snapshot thread calling clear() once
NextLock ==
    \/ \E c \in 1..NumLockThreads :
         \/ LockAllocRing(c)
         \/ AllocRing(c)
         \/ LockAllocBuffer(c)
         \/ AllocBuffer(c)
         \/ LockFreeBuffer(c)
         \/ FreeBuffer(c)
         \/ LockFreeRing(c)
         \/ FreeRing(c)
    \/ ClearRingBlocks
    \/ ClearBufferBlocks
    \/ ClearCombinedBlocks
    \/ ClearVectors

SpecLock == Init /\ [][NextLock]_vars

(***************************************************************************)
(* Properties of the lock                                                  *)
(***************************************************************************)
\* The threads that are inside a call that mutates the pools
Mutating ==
    {c \in Ctxs : ctx[c].pc \in {"allocRingStorage", "allocBuffer",
                                 "freeBuffer", "freeRingStorage"}}
    \cup (IF snap.pc \in {"clear_buffer", "clear_combined", "clear_vectors"}
          THEN {SnapshotThread} ELSE {})

\* C10: every mutation of a Block pool (allocating, freeing, filling or destroying
\* a block, clearing the pools) is made by a thread that holds Globals' lock, so no
\* two threads are ever mutating the pools at once.
C10_PoolMutationsHoldLock ==
    /\ \A t \in Mutating : globals.mLock = t
    /\ Cardinality(Mutating) <= 1

(***************************************************************************)
(* Actions: the two-phase save of one context                              *)
(* The snapshot thread calls preSave, save and postSave of a context in    *)
(* this order; snap.todo holds the context it is saving.                   *)
(***************************************************************************)
ConsumerCommands == {"Wakeup", "Exit", "Sleep", "PausePreSnapshot", "ResumePostSnapshot"}

\* A preSave that sends nothing
preSaveSilent(c) ==
    /\ aborted = ""
    /\ snap.pc = "idle"
    /\ ctx[c].pc = "live"
    /\ UNCHANGED <<task, dir>>
    /\ snap' = [snap EXCEPT !.pc = "preSaved", !.todo = {c}]
    /\ UNCHANGED <<globals, ctx, mConsumerMessages, consumers, aborted, lastCall>>

\* preSave: with a consumer, mConsumerInterface.preSave and send(PausePreSnapshot);
\* send waits while the channel is full and returns when the message is queued
preSave(c) ==
    /\ aborted = ""
    /\ snap.pc = "idle"
    /\ ctx[c].pc = "live"
    /\ ctx[c].mCurrentConsumer # 0 => CanSend(c)
    /\ mConsumerMessages' =
          IF ctx[c].mCurrentConsumer # 0
          THEN [mConsumerMessages EXCEPT ![c] = Append(@, "PausePreSnapshot")]
          ELSE mConsumerMessages
    /\ UNCHANGED <<task, dir>>
    /\ snap' = [snap EXCEPT !.pc = "preSaved", !.todo = {c},
                            !.paused = ctx[c].mCurrentConsumer # 0]
    /\ UNCHANGED <<globals, ctx, consumers, aborted, lastCall>>

\* save, called after preSave: the context's fields go to the stream
saveAfterPreSave(c) ==
    /\ aborted = ""
    /\ snap.pc = "preSaved"
    /\ c \in snap.todo
    /\ UNCHANGED <<task, dir>>
    /\ snap' = [snap EXCEPT !.pc = "ctxSaved", !.stream = save(ctx[c])]
    /\ UNCHANGED <<globals, ctx, mConsumerMessages, consumers, aborted, lastCall>>

\* postSave: with a consumer, send(ResumePostSnapshot) and mConsumerInterface.postSave
postSave(c) ==
    /\ aborted = ""
    /\ snap.pc = "ctxSaved"
    /\ c \in snap.todo
    /\ ctx[c].mCurrentConsumer # 0 => CanSend(c)
    /\ mConsumerMessages' =
          IF ctx[c].mCurrentConsumer # 0
          THEN [mConsumerMessages EXCEPT ![c] = Append(@, "ResumePostSnapshot")]
          ELSE mConsumerMessages
    /\ UNCHANGED <<task, dir>>
    /\ snap' = [snap EXCEPT !.pc = "idle", !.todo = {}, !.stream = <<>>, !.paused = FALSE]
    /\ UNCHANGED <<globals, ctx, consumers, aborted, lastCall>>

\* The guest-facing thread, the consumer threads and the snapshot thread on the
\* rendering contexts; a context is not destroyed while it is being saved, and at
\* most two consumers are created
NextSave ==
    \/ /\ \/ \E c \in Rendering :
               \/ \E t \in BOOLEAN :
                     /\ Cardinality(FreeConsumers) > MaxConsumers - 2
                     /\ Construct(c, [GraphicsCreate EXCEPT !.createRenderThread = t])
               \/ Cardinality(FreeConsumers) > MaxConsumers - 2 /\ SetVersion(c, HostVersion)
               \/ NotifyAvailable(c)
               \/ Close(c) /\ snap.pc = "idle"
               \/ DtorExiting(c) /\ snap.pc = "idle"
               \/ DtorHostState(c)
               \/ DtorSend(c)
               \/ DtorDestroy(c)
               \/ DtorFree(c)
          \/ \E k \in 1..MaxConsumers :
               \/ ConsumerCall(k)
               \/ ConsumerCheck(k)
               \/ ConsumerSleep(k)
               \/ ConsumerReceive(k)
       /\ UNCHANGED <<snap, task, dir>>
    \/ \E c \in Rendering :
         \/ preSave(c)
         \/ saveAfterPreSave(c)
         \/ postSave(c)

SpecSave == Init /\ [][NextSave]_vars

(***************************************************************************)
(* Properties of the message channel                                       *)
(***************************************************************************)
\* The commands in the channel of context c that must not be lost
Undropped(c) ==
    {i \in 1..Len(mConsumerMessages[c]) : mConsumerMessages[c][i] # "Wakeup"}

\* A consumer thread of context c takes command m out of receive in this step
Receives(c, m) ==
    \E k \in 1..MaxConsumers :
        /\ consumers[k].owner = c /\ consumers[k].pc = "recv"
        /\ consumers'[k].pc = onCommand(m).pc /\ consumers'[k].ret = onCommand(m).ret

ASG_GET_RING == 0
ASG_GET_BUFFER == 1
ASG_SET_VERSION == 2
ASG_NOTIFY_AVAILABLE == 3
ASG_GET_CONFIG == 4

AsgCommands ==
    {ASG_GET_RING, ASG_GET_BUFFER, ASG_SET_VERSION, ASG_NOTIFY_AVAILABLE, ASG_GET_CONFIG}

\* MessageChannel::trySend: the channel after it
trySend(ch, m) == IF Len(ch) < ChannelCap THEN Append(ch, m) ELSE ch

\* A SET_VERSION that negotiates against the host's version, whatever was stored
performSetVersionOfHost(obj, info) ==
    LET guestVersion == info.size
        version == IF HostVersion > guestVersion THEN guestVersion ELSE HostVersion
    IN  [info |-> [metadata |-> IF obj.mVirtioGpuInfo
                                THEN obj.mCombinedAllocation.hostmemId ELSE info.metadata,
                   size |-> version],
         obj |-> [obj EXCEPT !.mVersion = version]]

\* case ASG_SET_VERSION, up to the creation of the consumer: the ping returned and
\* the context with the version stored
performSetVersion(obj, info) ==
    LET guestVersion == info.size
        version == IF obj.mVersion > guestVersion THEN guestVersion ELSE obj.mVersion
    IN  [info |-> [metadata |-> IF obj.mVirtioGpuInfo
                                THEN obj.mCombinedAllocation.hostmemId ELSE info.metadata,
                   size |-> version],
         obj |-> [obj EXCEPT !.mVersion = version]]

\* A NOTIFY_AVAILABLE that reports a dropped Wakeup in metadata
performNotifyReportsDrop(info, ch) ==
    [info |-> [info EXCEPT !.metadata = IF Len(ch) < ChannelCap THEN 0 ELSE 1],
     channel |-> trySend(ch, "Wakeup")]

\* case ASG_NOTIFY_AVAILABLE: the ping returned and the channel after trySend
performNotifyAvailable(info, ch) ==
    [info |-> [info EXCEPT !.metadata = 0], channel |-> trySend(ch, "Wakeup")]

\* A GET_CONFIG that answers and leaves the ring header as the guest has it
performGetConfigKeepsHeader(obj, info) ==
    [info |-> [info EXCEPT !.metadata = 0], obj |-> obj]

\* case ASG_GET_CONFIG: the ping returned and the context with the ring header
\* overwritten by the saved copy
performGetConfig(obj, info) ==
    [info |-> [info EXCEPT !.metadata = 0],
     obj |-> [obj EXCEPT !.ring_config = obj.mSavedConfig]]

\* perform: [info, obj, channel, create]; `create` says whether
\* mConsumerInterface.create is called
perform(obj, info, ch) ==
    CASE info.metadata = ASG_GET_RING ->
           [info |-> performGetRing(obj), obj |-> obj, channel |-> ch, create |-> FALSE]
      [] info.metadata = ASG_GET_BUFFER ->
           [info |-> performGetBuffer(obj), obj |-> obj, channel |-> ch, create |-> FALSE]
      [] info.metadata = ASG_SET_VERSION ->
           [info |-> performSetVersion(obj, info).info,
            obj |-> performSetVersion(obj, info).obj, channel |-> ch, create |-> TRUE]
      [] info.metadata = ASG_NOTIFY_AVAILABLE ->
           [info |-> performNotifyAvailable(info, ch).info, obj |-> obj,
            channel |-> performNotifyAvailable(info, ch).channel, create |-> FALSE]
      [] info.metadata = ASG_GET_CONFIG ->
           [info |-> performGetConfig(obj, info).info,
            obj |-> performGetConfig(obj, info).obj, channel |-> ch, create |-> FALSE]
      [] OTHER -> [info |-> info, obj |-> obj, channel |-> ch, create |-> FALSE]

\* The guest versions tried: below, at and above the host's
GuestVersions == 0..(HostVersion + 1)

\* perform returned `r` for the ping `info`; `k` is the consumer created (0: none).
\* lastCall keeps the ping sent, the ping returned and whether a command was queued.
Performed(c, info, r, k) ==
    /\ ctx' = [ctx EXCEPT ![c] = IF k = 0 THEN r.obj
                                 ELSE [r.obj EXCEPT !.mCurrentConsumer = k]]
    /\ consumers' = IF k = 0 THEN consumers
                    ELSE [consumers EXCEPT ![k] =
                            [DefaultConsumer EXCEPT !.owner = c, !.pc = "run"]]
    /\ mConsumerMessages' = [mConsumerMessages EXCEPT ![c] = r.channel]
    /\ lastCall' = [op |-> "perform", reused |-> FALSE, refilled |-> FALSE,
                    waiting |-> {}, context |-> c, sent |-> info, info |-> r.info,
                    queued |-> r.channel # mConsumerMessages[c], created |-> k]
    /\ UNCHANGED <<globals, aborted, snap, task, dir>>

PerformCreating(c, info, r) ==
    /\ r.create => FreeConsumers # {}
    /\ Performed(c, info, r, IF r.create THEN Min(FreeConsumers) ELSE 0)

\* The guest pings context c
Perform(c, info) ==
    /\ aborted = ""
    /\ ctx[c].pc = "live"
    /\ PerformCreating(c, info, perform(ctx[c], info, mConsumerMessages[c]))

\* One context of any kind, pinged by the guest with every command, and its
\* consumer threads; at most two consumers are created
NextPing ==
    \/ \E c \in Rendering :
         \/ \E create \in CreateInfos(c) :
               /\ create.createRenderThread => Cardinality(FreeConsumers) > MaxConsumers - 2
               /\ Construct(c, create)
               /\ UNCHANGED <<snap, task, dir>>
         \/ \E cmd \in AsgCommands, g \in GuestVersions :
               /\ cmd = ASG_SET_VERSION => Cardinality(FreeConsumers) > MaxConsumers - 2
               /\ Perform(c, [metadata |-> cmd, size |-> g])
    \/ /\ \E k \in 1..MaxConsumers :
            \/ ConsumerCall(k)
            \/ ConsumerCheck(k)
            \/ ConsumerSleep(k)
            \/ ConsumerReceive(k)
       /\ UNCHANGED <<snap, task, dir>>

SpecPing == Init /\ [][NextPing]_vars

(***************************************************************************)
(* Properties of perform                                                   *)
(***************************************************************************)
\* C12: perform returns for every command in every state of the channel (full or
\* not, a consumer receiving or not): the call is never disabled on a live context,
\* and NOTIFY_AVAILABLE returns metadata 0 and has queued Wakeup if the channel had
\* room and left the channel as it was if not.
C12_PerformNeverBlocks ==
    /\ [](\A c \in Rendering :
            aborted = "" /\ ctx[c].pc = "live" =>
               \A cmd \in AsgCommands :
                  cmd # ASG_SET_VERSION \/ FreeConsumers # {} =>
                     ENABLED Perform(c, [metadata |-> cmd, size |-> 0]))
    /\ [][lastCall' # lastCall /\ lastCall'.op = "perform"
             /\ lastCall'.sent.metadata = ASG_NOTIFY_AVAILABLE =>
                /\ lastCall'.info.metadata = 0
                /\ ctx' = ctx
                /\ consumers' = consumers
                /\ mConsumerMessages'[lastCall'.context] =
                      IF Len(mConsumerMessages[lastCall'.context]) < ChannelCap
                      THEN Append(mConsumerMessages[lastCall'.context], "Wakeup")
                      ELSE mConsumerMessages[lastCall'.context]]_vars

\* NOTIFY_AVAILABLE has returned on a full channel that no consumer is receiving
\* from: the Wakeup was dropped
C12_NotifyOnFullChannel ==
    /\ lastCall.op = "perform" /\ lastCall.sent.metadata = ASG_NOTIFY_AVAILABLE
    /\ ~lastCall.queued
    /\ Len(mConsumerMessages[lastCall.context]) = ChannelCap
    /\ \A k \in 1..MaxConsumers : consumers[k].pc # "recv"
    /\ ctx[lastCall.context].mCurrentConsumer # 0

\* C13: SET_VERSION with guest version g stores min(host version, g) as the
\* negotiated version and returns it in size; on a virtio context metadata returns
\* the hostmem id of the combined Allocation.
C13_SetVersionIsMinOfHostAndGuest ==
    lastCall.op = "perform" /\ lastCall.sent.metadata = ASG_SET_VERSION =>
        LET obj == ctx[lastCall.context]
            g == lastCall.sent.size
        IN  /\ lastCall.info.size = IF HostVersion > g THEN g ELSE HostVersion
            /\ obj.mVersion = lastCall.info.size
            /\ obj.mVirtioGpuInfo =>
                  lastCall.info.metadata = obj.mCombinedAllocation.hostmemId

\* The consumer threads of context c that were created and not destroyed
LiveConsumers(c) ==
    {k \in 1..MaxConsumers :
        consumers[k].owner = c /\ consumers[k].pc \notin {"unborn", "destroyed"}}

\* C14: a SET_VERSION on a context that has a consumer creates no other one: a
\* context never has more than one consumer that was created and not destroyed, and
\* the consumer it holds is that one.
C14_AtMostOneConsumer ==
    \A c \in Ctxs :
        /\ Cardinality(LiveConsumers(c)) <= 1
        /\ LiveConsumers(c) # {} /\ ctx[c].pc = "live" =>
              LiveConsumers(c) = {ctx[c].mCurrentConsumer}

(***************************************************************************)
(* Properties of the two-phase save                                        *)
(***************************************************************************)
\* The commands of context c that its consumer threads have not received yet
Pending(c) == {mConsumerMessages[c][i] : i \in 1..Len(mConsumerMessages[c])}

\* postSave's ResumePostSnapshot is queued only when save has written the context
\* (it is sent in the step that leaves "ctxSaved", and in no other)
C15_ResumeOnlyAfterSave ==
    [][\A c \in Ctxs :
          Len(mConsumerMessages'[c]) = Len(mConsumerMessages[c]) + 1
          /\ mConsumerMessages'[c][Len(mConsumerMessages'[c])] = "ResumePostSnapshot" =>
              /\ snap.pc = "ctxSaved" /\ c \in snap.todo
              /\ snap.stream # <<>>]_vars

\* C15: when save has serialized a context that has a consumer, the consumer thread
\* has parked: it has received the PausePreSnapshot that preSave sent (the pause is
\* no longer waiting in the channel).
C15_ParkedBeforeSave ==
    \A c \in Ctxs :
        snap.pc = "ctxSaved" /\ c \in snap.todo /\ ctx[c].mCurrentConsumer # 0 =>
            "PausePreSnapshot" \notin Pending(c)

(***************************************************************************)
(* Actions: onUnavailableRead over every command of the channel            *)
(***************************************************************************)
\* MessageChannel::send of any ConsumerCommand to the channel of a context that has
\* a consumer. (Of the five commands Sleep has no sender in this file; it is queued
\* here so that its case of onUnavailableRead's switch is taken.)
SendCommand(c, m) ==
    /\ aborted = ""
    /\ ctx[c].pc = "live"
    /\ ctx[c].mCurrentConsumer # 0
    /\ CanSend(c)
    /\ mConsumerMessages' = [mConsumerMessages EXCEPT ![c] = Append(@, m)]
    /\ UNCHANGED <<globals, ctx, consumers, aborted, lastCall>>

\* A context with its consumer thread, the commands sent to it and the destructor
NextRead ==
    /\ \/ \E c \in Rendering :
             \/ Construct(c, [GraphicsCreate EXCEPT !.createRenderThread = TRUE])
             \/ \E m \in ConsumerCommands \ {"Exit"} : SendCommand(c, m)
             \/ NotifyAvailable(c)
             \/ DtorExiting(c)
             \/ DtorHostState(c)
             \/ DtorSend(c)
             \/ DtorDestroy(c)
             \/ DtorFree(c)
       \/ \E k \in 1..MaxConsumers :
             \/ ConsumerCall(k)
             \/ ConsumerCheck(k)
             \/ ConsumerSleep(k)
             \/ ConsumerReceive(k)
    /\ UNCHANGED <<snap, task, dir>>

SpecRead == Init /\ [][NextRead]_vars

(***************************************************************************)
(* Properties of the host state                                            *)
(***************************************************************************)
\* C16: onUnavailableRead moves the host state of a context to NEED_NOTIFY only in
\* the step that goes on to the blocking receive, and a consumer thread comes to that
\* step only from the threshold test when the counter has reached the threshold (or,
\* re-arming inside the same call, from a received Sleep); the host state moves to
\* CAN_CONSUME only by a consumer thread receiving Wakeup; and receiving Sleep,
\* PausePreSnapshot or ResumePostSnapshot leaves the host state as it was.
C16_HostStateFollowsWakeup ==
    [][\A c \in Ctxs :
         LET ch == mConsumerMessages[c]
             mine == {k \in 1..MaxConsumers : consumers[k].owner = c}
         IN  ctx[c].pc # "none" /\ ctx'[c].pc # "none" =>
             /\ ctx'[c].host_state = "NEED_NOTIFY" /\ ctx[c].host_state # "NEED_NOTIFY" =>
                   \E k \in mine : Moves(k, "sleep") /\ consumers'[k].pc = "recv"
             /\ \A k \in mine :
                   consumers'[k].pc = "sleep" /\ consumers[k].pc # "sleep" =>
                      \/ /\ consumers[k].pc = "check"
                         /\ reachedMaxUnavailableReads(ctx[c].mUnavailableReadCount,
                                                       ctx[c].mExiting)
                      \/ consumers[k].pc = "recv" /\ ch # <<>> /\ Head(ch) = "Sleep"
             /\ ctx'[c].host_state = "CAN_CONSUME" /\ ctx[c].host_state # "CAN_CONSUME" =>
                   /\ ch # <<>> /\ Head(ch) = "Wakeup"
                   /\ Receives(c, "Wakeup")
                   /\ mConsumerMessages'[c] = Tail(ch)
             /\ \A k \in mine :
                   Moves(k, "recv") /\ ch # <<>>
                   /\ Head(ch) \in {"Sleep", "PausePreSnapshot", "ResumePostSnapshot"} =>
                      ctx'[c].host_state = ctx[c].host_state]_vars

\* A consumer thread that wrote NEED_NOTIFY and blocked has received Wakeup: its call
\* returned 1 and the host state is CAN_CONSUME again
C16_WokenByWakeup ==
    \E k \in 1..MaxConsumers :
        /\ consumers[k].owner # 0
        /\ consumers[k].pc = "run" /\ consumers[k].ret = 1
        /\ ctx[consumers[k].owner].host_state = "CAN_CONSUME"
        /\ ctx[consumers[k].owner].mUnavailableReadCount = 0
        /\ ctx[consumers[k].owner].mExiting = 0

(***************************************************************************)
(* Actions: Globals::initialize                                            *)
(* Thread SnapshotThread + o calls AddressSpaceGraphicsContext::init with  *)
(* control ops o, any number of times, among contexts created and destroyed*)
(***************************************************************************)
NumControlOps == 2

ControlOps == 1..NumControlOps

\* An initialize that stores its argument at every call
initializeAlways(G, ops) == [G EXCEPT !.mControlOps = ops, !.mInitialized = TRUE]

\* Globals::initialize, under the lock
initialize(G, ops) ==
    IF G.mInitialized THEN G
    ELSE [G EXCEPT !.mControlOps = ops, !.mInitialized = TRUE]

\* initialize: AutoLock lock(mLock)
LockInitialize(ops) ==
    /\ aborted = ""
    /\ globals.mLock = 0
    /\ globals' = [globals EXCEPT !.mLock = SnapshotThread + ops]
    /\ UNCHANGED <<ctx, mConsumerMessages, consumers, aborted, lastCall, snap, task, dir>>

\* initialize: the body and the release of the lock
Initialize(ops) ==
    /\ aborted = ""
    /\ globals.mLock = SnapshotThread + ops
    /\ globals' = [initialize(globals, ops) EXCEPT !.mLock = 0]
    /\ lastCall' = [op |-> "initialize", reused |-> FALSE, refilled |-> FALSE,
                    waiting |-> {}, ops |-> ops]
    /\ UNCHANGED <<ctx, mConsumerMessages, consumers, aborted, snap, task, dir>>

\* Contexts are created and destroyed (their pool operations take the lock) while
\* threads call initialize
NextInit ==
    \/ globals.mLock = 0 /\ NextAlloc
    \/ \E ops \in ControlOps :
         \/ LockInitialize(ops)
         \/ Initialize(ops)

SpecInit == Init /\ [][NextInit]_vars

(***************************************************************************)
(* Properties of Globals::initialize                                       *)
(***************************************************************************)
\* C17: the first call of initialize stores its control ops, and once Globals is
\* initialized no step - a later call of initialize with the same or with other
\* control ops, from any thread, or anything else - changes the stored control ops
\* or the initialized flag.
C17_InitializeIdempotent ==
    [][/\ globals.mInitialized =>
             globals'.mInitialized /\ globals'.mControlOps = globals.mControlOps
       /\ ~globals.mInitialized /\ globals'.mInitialized =>
             globals'.mControlOps = globals.mLock - SnapshotThread
       /\ ~globals'.mInitialized => globals'.mControlOps = 0]_vars

\* initialize has just returned from a call with control ops other than the stored
\* ones, with a context alive
C17_LaterCallWithOtherOps ==
    /\ lastCall.op = "initialize"
    /\ globals.mInitialized
    /\ lastCall.ops # globals.mControlOps
    /\ \E c \in Ctxs : ctx[c].pc = "live"

(***************************************************************************)
(* Properties of dedicated blocks                                          *)
(***************************************************************************)
\* The block that holds Allocation `a` of pool `pool`
BlockOf(pool, a) == globals[pool][a.blockIndex + 1]

\* The handle context c asked for: its own when it is a virtio context, none if not
RequestedHandle(c) == IF ctx[c].mVirtioGpuInfo THEN c ELSE NoHandle

\* C18: every Allocation that a live context owns lies in a block in use whose
\* dedicated handle is the handle of the request that made the Allocation (so a
\* request is never placed in a block of another handle, refilled slots included, and
\* a non-dedicated request never in a dedicated block), and a block with a dedicated
\* handle holds Allocations of one context only.
C18_DedicatedBlockNotShared ==
    \A c \in Ctxs :
        ctx[c].pc = "live" =>
           \A a \in OwnedAllocations(ctx[c]) :
              /\ ~BlockOf(a[1], a[2]).isEmpty
              /\ a[2].dedicatedContextHandle = RequestedHandle(c)
              /\ BlockOf(a[1], a[2]).dedicatedContextHandle = RequestedHandle(c)
              /\ BlockOf(a[1], a[2]).dedicatedContextHandle # NoHandle =>
                    \A d \in Ctxs \ {c} :
                       ctx[d].pc = "live" =>
                          \A b \in OwnedAllocations(ctx[d]) :
                             b[1] # a[1] \/ b[2].blockIndex # a[2].blockIndex

\* Two virtio contexts have changed slots: the second one's block is in the slot that
\* was the first one's (destroyed and refilled for another handle), the first one was
\* created again past it, and a non-virtio context holds blocks of the other pools
C18_RefilledForOtherHandle ==
    /\ lastCall.op = "new" /\ lastCall.refilled
    /\ ctx[1].pc = "live" /\ ctx[1].mVirtioGpuInfo
    /\ ctx[2].pc = "live" /\ ctx[2].mVirtioGpuInfo
    /\ ctx[2].mCombinedAllocation.blockIndex = 0
    /\ ctx[1].mCombinedAllocation.blockIndex = 1
    /\ \E c \in Ctxs : ctx[c].pc = "live" /\ ~ctx[c].mVirtioGpuInfo

(***************************************************************************)
(* Actions: requests larger than a block                                   *)
(***************************************************************************)
MaxOversize == 2

Oversizes == (BLOCK_SIZE + 1)..(BLOCK_SIZE + MaxOversize)

\* Virtio contexts over external memory larger than BLOCK_SIZE:
\* allocRingAndBufferStorageDedicated asks newAllocation for all of it
OversizedCreateInfos(c) ==
    {[GraphicsCreate EXCEPT !.type = "VirtioGpuGraphics", !.handle = c,
                            !.externalAddr = ExtBase + c, !.externalAddrSize = n] :
        n \in IF c <= NumVirtioCtx THEN Oversizes ELSE {}}

\* Contexts are created and destroyed; some are asked for over too much memory
NextBig ==
    \/ NextAlloc
    \/ /\ \E c \in Ctxs : \E create \in OversizedCreateInfos(c) : Construct(c, create)
       /\ UNCHANGED <<snap, task, dir>>

SpecBig == Init /\ [][NextBig]_vars

(***************************************************************************)
(* Properties of oversized requests                                        *)
(***************************************************************************)
\* The requests of every kind that newAllocation can be given with a size above
\* BLOCK_SIZE, each with the pool it goes to
OversizedRequests ==
    {<<"mCombinedBlocks",
       [ZeroCreateInfo EXCEPT !.size = n, !.dedicatedContextHandle = h,
                              !.virtioGpu = TRUE, !.externalAddr = ExtBase + h]>> :
        n \in Oversizes, h \in 1..NumVirtioCtx}
    \cup {<<pool, [ZeroCreateInfo EXCEPT !.size = n]>> :
            pool \in {"mRingBlocks", "mBufferBlocks"}, n \in Oversizes}

WantedTooMuch == "wanted size which is greater than block size"

\* C19: whatever the pools hold (blocks in use, full blocks, destroyed slots that a
\* request could refill), newAllocation with a size above BLOCK_SIZE aborts and
\* returns no Allocation, with Globals exactly as it was before the call: no block
\* created, refilled or sub-allocated.
C19_OversizedAbortsUnchanged ==
    /\ \A q \in OversizedRequests :
          LET r == newAllocation(globals, q[2], q[1])
          IN  /\ r.abort = WantedTooMuch
              /\ r.G = globals
              /\ r.res = DefaultAllocation
    /\ \A c \in Ctxs : \A create \in OversizedCreateInfos(c) :
          LET r == ContextAllocate(globals, create)
          IN  r.abort = WantedTooMuch /\ r.G = globals

\* A constructor has aborted on an oversized request while the combined pool had a
\* destroyed slot that the request could have refilled and a block in use
C19_AbortedWithSlotToRefill ==
    /\ aborted = WantedTooMuch
    /\ \E i \in 1..Len(globals.mCombinedBlocks) : globals.mCombinedBlocks[i].isEmpty
    /\ \E i \in 1..Len(globals.mCombinedBlocks) : ~globals.mCombinedBlocks[i].isEmpty
    /\ \E c \in Ctxs : ctx[c].pc = "none" /\ c <= NumVirtioCtx

(***************************************************************************)
(* Actions: misuse of the dedicated path                                   *)
(***************************************************************************)
NoDedicatedHandle == "Dedicated ASG allocation requested without dedicated handle."

ExternalTooSmall == "External address size too small"

NoHostmemId == "Cannot use dedicated allocation without virtio-gpu hostmem id"

OnlyDedicated == "Only dedicated allocation allowed in virtio-gpu hostmem id path"

\* The AddressSpaceCreateInfo of virtio contexts that lack the handle, the external
\* address, or enough external memory; the handle may be one a live context uses
MisusedCreateInfos ==
    {create \in [type : {"VirtioGpuGraphics"}, handle : 0..NumVirtioCtx,
                 externalAddr : {NullBuf, ExtBase + 1},
                 externalAddrSize : 0..BLOCK_SIZE, createRenderThread : {FALSE}] :
        \/ create.handle = NoHandle
        \/ create.externalAddr = NullBuf /\ create.externalAddrSize = 0
        \/ /\ create.externalAddr # NullBuf
           /\ create.externalAddrSize < RingSize + PerContextBufferSize}

\* Contexts are created and destroyed; some virtio contexts are asked for without
\* what the dedicated path needs
NextMisuse ==
    \/ NextAlloc
    \/ /\ \E c \in Ctxs : \E create \in MisusedCreateInfos : Construct(c, create)
       /\ UNCHANGED <<snap, task, dir>>

SpecMisuse == Init /\ [][NextMisuse]_vars

(***************************************************************************)
(* Properties of the dedicated path                                        *)
(***************************************************************************)
\* The AllocationCreateInfo that fillBlockLocked refuses: a dedicated handle without
\* the virtio flag, a dedicated handle without an external address, the virtio flag
\* without a dedicated handle
MisusedRequests ==
    {create \in [virtioGpu : BOOLEAN, hostmemRegisterFixed : {FALSE}, fromLoad : {FALSE},
                 size : {RingSize, PerContextBufferSize, RingSize + PerContextBufferSize},
                 hostmemId : {0}, externalAddr : {NullBuf, ExtBase + 1},
                 dedicatedContextHandle : 0..NumVirtioCtx] :
        \/ create.dedicatedContextHandle # NoHandle /\ ~create.virtioGpu
        \/ create.dedicatedContextHandle # NoHandle /\ create.externalAddr = NullBuf
        \/ create.dedicatedContextHandle = NoHandle /\ create.virtioGpu}

\* The blocks that newAllocation hands to fillBlockLocked: a new one, or a destroyed
\* slot of a pool
BlocksToFill ==
    {DefaultBlock} \cup
    UNION {{globals[pool][i] : i \in 1..Len(globals[pool])} : pool \in Pools}

\* C20: whatever the pools hold, allocRingAndBufferStorageDedicated aborts and returns
\* no Allocation for a request with no handle, for a handle with no external address
\* (also when a live context uses the handle), and for external memory smaller than
\* ring header plus per-context buffer; and fillBlockLocked aborts and fills no block
\* for a dedicated handle without the virtio flag, a dedicated handle without an
\* external address, and the virtio flag without a dedicated handle.
C20_DedicatedMisuseAborts ==
    /\ \A create \in MisusedCreateInfos :
          LET r == allocRingAndBufferStorageDedicated(globals, create)
          IN  /\ r.res = DefaultAllocation
              /\ r.abort = IF create.handle = NoHandle THEN NoDedicatedHandle
                           ELSE IF create.externalAddr = NullBuf THEN NoHostmemId
                           ELSE ExternalTooSmall
    /\ \A create \in MisusedRequests :
          \A block \in {b \in BlocksToFill : b.isEmpty} :
             LET r == fillBlockLocked(globals, block, create)
             IN  /\ r.block = DefaultBlock /\ r.G = globals
                 /\ r.abort = IF create.dedicatedContextHandle # NoHandle
                              THEN NoHostmemId ELSE OnlyDedicated

\* A virtio constructor given a handle and no external address has aborted in
\* fillBlockLocked, with a dedicated block in use and a destroyed slot in the pool
C20_AbortedWithoutExternalAddress ==
    /\ aborted = NoHostmemId
    /\ \E i \in 1..Len(globals.mCombinedBlocks) : globals.mCombinedBlocks[i].isEmpty
    /\ \E i \in 1..Len(globals.mCombinedBlocks) :
          /\ ~globals.mCombinedBlocks[i].isEmpty
          /\ \E c \in Ctxs :
                ctx[c].pc = "live"
                /\ ctx[c].mCombinedAllocation.dedicatedContextHandle =
                      globals.mCombinedBlocks[i].dedicatedContextHandle

(***************************************************************************)
(* Actions: deleteAllocation on any Allocation                             *)
(* Contexts are constructed and their Allocations are handed to            *)
(* deleteAllocation any number of times (the context keeps its copy, so an *)
(* Allocation can be deleted twice), along with a null Allocation and with *)
(* copies whose blockIndex is past the end of the pool.                    *)
(***************************************************************************)
ShouldBeABlock == "should be a block at index but it is not found"

FailedToFree == "failed to free"

\* deleteAllocation reaches a destroyed slot: the index is in range and the block
\* has been destroyed, so the SubAllocator it goes on to use has been deleted
OnDestroyedSlot(G, alloc, pool) ==
    /\ alloc.buffer # NullPtr
    /\ alloc.blockIndex < Len(G[pool])
    /\ G[pool][alloc.blockIndex + 1].isEmpty

\* What a call of deleteAllocation can do. On a destroyed slot the use of the deleted
\* SubAllocator is undefined: its free may report failure (abort) or success, and the
\* block may then be destroyed a second time; an external slot is destroyed again.
DeleteOutcomes(G, alloc, pool) ==
    IF OnDestroyedSlot(G, alloc, pool)
    THEN {Die(destroyBlockLocked(G, pool, alloc.blockIndex + 1), "")} \cup
         (IF G[pool][alloc.blockIndex + 1].external THEN {}
          ELSE {Die(G, FailedToFree), Die(G, "")})
    ELSE {deleteAllocation(G, alloc, pool)}

\* The Allocations handed to deleteAllocation for `pool`
DeleteInputs(pool) ==
    LET held == {a[2] : a \in {b \in UNION {OwnedAllocations(ctx[c]) : c \in Ctxs} :
                                  b[1] = pool}}
    IN  held \cup {DefaultAllocation}
             \cup {[a EXCEPT !.blockIndex = Len(globals[pool])] : a \in held}
             \cup {[DefaultAllocation EXCEPT !.blockIndex = Len(globals[pool])]}

DeleteCall(pool, alloc) ==
    /\ aborted = ""
    /\ \E r \in DeleteOutcomes(globals, alloc, pool) :
          /\ aborted' = r.abort
          /\ globals' = r.G
    /\ lastCall' = [op |-> "delete", reused |-> FALSE, refilled |-> FALSE,
                    waiting |-> {}, pool |-> pool, alloc |-> alloc,
                    seq |-> IF lastCall.op = "delete" THEN 1 - lastCall.seq ELSE 0]
    /\ UNCHANGED <<ctx, mConsumerMessages, consumers>>

NextDelete ==
    /\ \/ \E c \in Ctxs : Construct(c, SnapCreate(c))
       \/ \E pool \in Pools : \E alloc \in DeleteInputs(pool) : DeleteCall(pool, alloc)
    /\ UNCHANGED <<snap, task, dir>>

SpecDelete == Init /\ [][NextDelete]_vars

(***************************************************************************)
(* Properties of deleteAllocation                                          *)
(***************************************************************************)
\* This step is a call of deleteAllocation
DeleteStep ==
    /\ lastCall'.op = "delete"
    /\ lastCall.op # "delete" \/ lastCall'.seq # lastCall.seq

\* C21: a call of deleteAllocation with a null buffer changes nothing in Globals and
\* does not abort; a call with a buffer and a blockIndex that is not an index of the
\* pool aborts; and a call whose SubAllocator free fails (the buffer is not a live
\* range of the block at blockIndex: it was freed before, or is not of this block)
\* aborts. An abort leaves the pools as they were.
C21_DeleteNullOrAbort ==
    [][DeleteStep =>
         LET alloc == lastCall'.alloc
             pool == lastCall'.pool
             inRange == alloc.blockIndex < Len(globals[pool])
         IN  /\ alloc.buffer = NullPtr => globals' = globals /\ aborted' = ""
             /\ alloc.buffer # NullPtr /\ ~inRange =>
                   aborted' = ShouldBeABlock /\ globals' = globals
             /\ /\ alloc.buffer # NullPtr /\ inRange
                /\ ~globals[pool][alloc.blockIndex + 1].isEmpty
                /\ ~globals[pool][alloc.blockIndex + 1].external
                /\ ~SubAllocRelease(globals[pool][alloc.blockIndex + 1].subAlloc,
                                    globals[pool][alloc.blockIndex + 1].buffer,
                                    alloc.buffer).ok
                => aborted' = FailedToFree /\ globals' = globals
             /\ aborted' = FailedToFree => alloc.buffer # NullPtr /\ inRange]_vars

\* An Allocation was deleted a second time while another context's Allocation kept
\* its block in use: the free failed and the call aborted
C21_DoubleFreeAborted ==
    /\ aborted = FailedToFree
    /\ lastCall.op = "delete"
    /\ ~globals[lastCall.pool][lastCall.alloc.blockIndex + 1].isEmpty
    /\ \E c \in Ctxs : \E a \in OwnedAllocations(ctx[c]) :
          a[1] = lastCall.pool /\ a[2] = lastCall.alloc

(***************************************************************************)
(* Actions: the physical window shared with other users                    *)
(* globals.foreign holds the regions of the window that other users of the *)
(* address-space device have allocated; globals.regions holds every region *)
(* allocated.                                                              *)
(***************************************************************************)
NoPhysicalRegion == "Failed to allocate physical address graphics backing memory."

\* Another user of the device allocates a region of the window
ForeignAlloc ==
    /\ aborted = ""
    /\ allocSharedHostRegionLocked(globals) # -1
    /\ globals' = [globals EXCEPT
                      !.regions = @ \cup {allocSharedHostRegionLocked(globals)},
                      !.foreign = @ \cup {allocSharedHostRegionLocked(globals)}]
    /\ UNCHANGED <<ctx, mConsumerMessages, consumers, aborted, lastCall, snap, task, dir>>

\* Two non-virtio contexts created and destroyed and one save and load of everything,
\* while other users take regions of the window; contexts may be destroyed and
\* regions taken between the save and the load
NextRegion ==
    \/ /\ snap.pc \in {"idle", "saved"}
       /\ \/ \E c \in Rendering \cup {NumCtx} :
               \/ snap.pc = "idle" /\ Construct(c, GraphicsCreate)
               \/ Destroy(c)
          \/ ForeignAlloc
       /\ UNCHANGED <<snap, task, dir>>
    \/ GlobalStateSave
    \/ \E c \in Ctxs : Save(c)
    \/ GlobalStateLoad([present |-> FALSE, handles |-> {}])
    \/ \E c \in Ctxs : Load(c)

SpecRegion == Init /\ [][NextRegion]_vars

(***************************************************************************)
(* Properties of the physical regions of blocks                            *)
(***************************************************************************)
\* A block slot as loadBlockLocked hands it to fillBlockLocked: offset `off` recorded
LoadedSlot(off) == [DefaultBlock EXCEPT !.isEmpty = FALSE, !.offsetIntoPhys = off]

LoadRequest ==
    [ZeroCreateInfo EXCEPT !.size = BLOCK_SIZE, !.hostmemRegisterFixed = TRUE,
                           !.fromLoad = TRUE]

\* C22: when the window has no region left, filling a non-dedicated block for a fresh
\* allocation aborts and changes nothing; filling one on load at a recorded offset
\* whose region is already taken does not abort: the block is filled at the recorded
\* offset with a new buffer mapped there; and Globals::load of a saved stream goes
\* through with every block in use at its saved offset, whatever regions are taken.
C22_RegionFailureFatalUnlessLoad ==
    /\ allocSharedHostRegionLocked(globals) = -1 =>
          \A size \in {RingSize, PerContextBufferSize} :
             LET f == fillBlockLocked(globals, DefaultBlock,
                                      [ZeroCreateInfo EXCEPT !.size = size])
             IN  f.abort = NoPhysicalRegion /\ f.G = globals
    /\ \A off \in globals.regions :
          LET f == fillBlockLocked(globals, LoadedSlot(off), LoadRequest)
          IN  /\ f.abort = ""
              /\ ~f.block.isEmpty
              /\ f.block.offsetIntoPhys = off
              /\ f.block.buffer \notin globals.heap
              /\ <<off, f.block.buffer>> \in f.G.mappings
    /\ snap.pc = "saved" =>
          LET r == GlobalsLoad(globals, snap.stream, [present |-> FALSE, handles |-> {}])
          IN  /\ r.abort = ""
              /\ \A pool \in {"mRingBlocks", "mBufferBlocks"} :
                    /\ Len(r.G[pool]) = Len(snap.saved.globals[pool])
                    /\ \A i \in 1..Len(r.G[pool]) :
                          /\ r.G[pool][i].isEmpty = snap.saved.globals[pool][i].isEmpty
                          /\ ~r.G[pool][i].isEmpty =>
                                r.G[pool][i].offsetIntoPhys =
                                   snap.saved.globals[pool][i].offsetIntoPhys

\* Everything was loaded, and a block was filled at its recorded offset although
\* another user had taken that region between the save and the load
C22_LoadedOverTakenRegion ==
    /\ snap.pc = "loaded" /\ snap.ok
    /\ \E i \in 1..Len(globals.mRingBlocks) :
          /\ ~globals.mRingBlocks[i].isEmpty
          /\ globals.mRingBlocks[i].offsetIntoPhys \in globals.foreign
    /\ \E c \in Ctxs : ctx[c].pc = "live"

(***************************************************************************)
(* Actions: load with any load resources                                   *)
(***************************************************************************)
NoDedicatedContext == "Virtio GPU backed blocks are expected to have dedicated context."

NoLoadResources == "Virtio GPU backed blocks need external memory resources for loading."

NoExternalMemory == "Virtio GPU backed blocks an need external memory replacement."

\* No resources, or resources whose map has entries for any set of handles
AnyLoadResources ==
    {[present |-> FALSE, handles |-> {}]} \cup
    {[present |-> TRUE, handles |-> S] : S \in SUBSET (1..NumVirtioCtx)}

\* Contexts created and destroyed, virtio ones among them; then one save of
\* everything and a load of it with any resources
NextResources ==
    \/ /\ snap.pc = "idle"
       /\ \E c \in Ctxs :
             \/ Construct(c, SnapCreate(c))
             \/ Destroy(c)
       /\ UNCHANGED <<snap, task, dir>>
    \/ GlobalStateSave
    \/ \E c \in Ctxs : Save(c)
    \/ \E resources \in AnyLoadResources : GlobalStateLoad(resources)
    \/ \E c \in Ctxs : Load(c)

SpecResources == Init /\ [][NextResources]_vars

(***************************************************************************)
(* Properties of loading virtio-backed blocks                              *)
(***************************************************************************)
\* The virtio-backed blocks that were saved
SavedVirtioBlocks ==
    {b \in UNION {{snap.saved.globals[pool][i] : i \in 1..Len(snap.saved.globals[pool])} :
                     pool \in Pools} :
        ~b.isEmpty /\ b.usesVirtioGpuHostmem}

\* A stream that holds block `b` alone, as the one block of the combined pool
StreamOfBlock(b) ==
    <<putBe64(0), putBe64(0), putBe64(1)>> \o saveBlockLocked(snap.saved.globals, b)

\* C23: Globals::load of a saved stream that holds virtio-backed blocks aborts when no
\* resources are passed and when the resources' map lacks the handle of one of the
\* blocks, and a stream with a virtio-backed block that has no dedicated handle
\* aborts with any resources; when load goes through, every virtio-backed block lies
\* on the external memory that the resources give for its handle.
C23_VirtioBlocksNeedResources ==
    snap.pc = "saved" =>
       \A resources \in AnyLoadResources :
          LET r == GlobalsLoad(globals, snap.stream, resources)
              handles == {b.dedicatedContextHandle : b \in SavedVirtioBlocks}
          IN  /\ SavedVirtioBlocks # {} /\ ~resources.present => r.abort = NoLoadResources
              /\ resources.present /\ ~(handles \subseteq resources.handles) =>
                    r.abort = NoExternalMemory
              /\ r.abort = "" =>
                    /\ handles \subseteq resources.handles
                    /\ \A i \in 1..Len(r.G.mCombinedBlocks) :
                          LET b == r.G.mCombinedBlocks[i]
                          IN  ~b.isEmpty /\ b.usesVirtioGpuHostmem =>
                                 /\ b.external
                                 /\ b.buffer = ExternalAddress(b.dedicatedContextHandle)
                                 /\ b.dedicatedContextHandle \in resources.handles
              /\ \A b \in SavedVirtioBlocks :
                    GlobalsLoad(globals,
                                StreamOfBlock([b EXCEPT !.dedicatedContextHandle = NoHandle]),
                                resources).abort = NoDedicatedContext

\* A load has aborted on a virtio-backed block although resources were passed: their
\* map had an entry for another handle, not for the block's
C23_AbortedOnMissingEntry ==
    /\ aborted = NoExternalMemory
    /\ snap.pc = "saved"
    /\ Cardinality(SavedVirtioBlocks) = 1
    /\ \E c \in Ctxs : ctx[c].pc = "live" /\ ~ctx[c].mVirtioGpuInfo


(***************************************************************************)
(* C24: what destroyBlockLocked releases                                   *)
(***************************************************************************)
\* The non-external blocks that the step destroys
InternalDestroyed ==
    {b \in UNION {{globals[p][i] : i \in {j \in 1..Len(globals[p]) : DestroyedByStep(p, j)}}
                     : p \in Pools} : ~b.external}

\* The virtio-backed external blocks that the step destroys
VirtioExternalDestroyed(p) ==
    {i \in 1..Len(globals[p]) : /\ DestroyedByStep(p, i)
                                /\ globals[p][i].external
                                /\ globals[p][i].usesVirtioGpuHostmem}

\* What a step releases of the blocks it destroys, for the internal ones: their
\* mapping, their physical region and their backing buffer, and nothing else
ReleasesInternalOnly ==
    /\ globals'.mappings \cap globals.mappings =
          globals.mappings \ {<<b.offsetIntoPhys, b.buffer>> : b \in InternalDestroyed}
    /\ globals'.regions \cap globals.regions =
          globals.regions \ {b.offsetIntoPhys : b \in InternalDestroyed}
    /\ globals'.heap \cap globals.heap =
          globals.heap \ {b.buffer : b \in InternalDestroyed}

\* destroyBlockLocked on a virtio-backed block that is not external, which no fill
\* path makes: the block in slot i of pool p with usesVirtioGpuHostmem set
destroyVirtioInternal(G, p, i) ==
    destroyBlockLocked([G EXCEPT ![p][i].usesVirtioGpuHostmem = TRUE], p, i)

\* C24 as stated: destroyBlockLocked unregisters host memory for a virtio-external
\* block, or unmaps and frees the region and the buffer of an internal block, never
\* both; it frees or unmaps nothing of an external block; the block is left empty.
C24_UnregistersVirtioExternal ==
    [][/\ ReleasesInternalOnly
       /\ globals'.unregistered =
             globals.unregistered
                + Cardinality(UNION {{<<p, i>> : i \in VirtioExternalDestroyed(p)} : p \in Pools})
      ]_vars

\* C24 as the code has it: destroyBlockLocked unmaps and frees the physical region
\* and the backing buffer of a non-external block and releases nothing of an
\* external block, whose host memory it does not unregister either - every
\* virtio-backed block is external; hostmem_unregister is called only for a
\* virtio-backed block that is not external, in place of the unmapping and the
\* freeing of the region, the buffer being freed all the same; the block is left
\* marked empty.
C24_ReleasesInternalBlocksOnly ==
    [][/\ ReleasesInternalOnly
       /\ globals'.unregistered = globals.unregistered
       /\ \A p \in Pools : \A i \in 1..Len(globals[p]) :
             LET block == globals[p][i]
             IN  /\ block.usesVirtioGpuHostmem => block.external
                 /\ ~block.isEmpty =>
                       /\ destroyBlockLocked(globals, p, i)[p][i].isEmpty
                       /\ block.external =>
                             \A f \in {"mappings", "regions", "heap", "unregistered"} :
                                destroyBlockLocked(globals, p, i)[f] = globals[f]
                       /\ ~block.external =>
                             LET G == destroyVirtioInternal(globals, p, i)
                             IN  /\ G.unregistered = globals.unregistered + 1
                                 /\ G.mappings = globals.mappings
                                 /\ G.regions = globals.regions
                                 /\ G.heap = globals.heap \ {block.buffer}
      ]_vars

\* C24 witness: the destructor of a virtio context has destroyed its external block,
\* which is empty now, and no host memory was ever unregistered, while an internal
\* block is still mapped
C24_ExternalDestroyedNotUnregistered ==
    /\ lastCall.op = "free"
    /\ \E i \in 1..Len(globals.mCombinedBlocks) :
          /\ globals.mCombinedBlocks[i].isEmpty
          /\ globals.mCombinedBlocks[i].external
          /\ globals.mCombinedBlocks[i].usesVirtioGpuHostmem
    /\ globals.unregistered = 0
    /\ globals.mappings # {}


(***************************************************************************)
(* C25: an external block and its one dedicated Allocation                 *)
(***************************************************************************)
\* Virtio requests in which a context may name either of two dedicated handles, so
\* that two contexts can ask for the same handle, on external memory of just the
\* size needed or of a whole block
SharedCreateInfos ==
    {[GraphicsCreate EXCEPT !.type = "VirtioGpuGraphics", !.handle = h,
                            !.externalAddr = ExtBase + h, !.externalAddrSize = n] :
        h \in {1, NumVirtioCtx}, n \in {RingSize + PerContextBufferSize, BLOCK_SIZE}}

\* Contexts without consumers, created and destroyed in any order: virtio ones on
\* shared handles, and the last context non-virtio
NextShared ==
    /\ \E c \in Ctxs :
          \/ \E create \in SharedCreateInfos : c < NumCtx /\ Construct(c, create)
          \/ c = NumCtx /\ Construct(c, GraphicsCreate)
          \/ Destroy(c)
    /\ UNCHANGED <<snap, task, dir>>

SpecShared == Init /\ [][NextShared]_vars

\* The Allocations of the live contexts of C lie in blocks in use of G, on a range
\* that the block's SubAllocator holds
LiveAllocationsValid(G, C) ==
    \A c \in Ctxs : C[c].pc = "live" =>
       \A a \in OwnedAllocations(C[c]) :
          /\ a[2].blockIndex < Len(G[a[1]])
          /\ LET block == G[a[1]][a[2].blockIndex + 1]
             IN  /\ ~block.isEmpty
                 /\ <<a[2].buffer[2], a[2].size>> \in block.subAlloc

\* C25: an external block in use holds exactly one Allocation, which is all of it
\* and belongs to at most one live context, and a step that destroys an external
\* block leaves the Allocations of every context still alive in blocks in use.
C25_ExternalBlockHoldsOneAllocation ==
    [][/\ \A p \in Pools : \A i \in 1..Len(globals[p]) :
             LET block == globals[p][i]
             IN  (block.external /\ ~block.isEmpty) =>
                    /\ Cardinality(LiveIn(ctx, p, i)) <= 1
                    /\ block.subAlloc = {<<0, block.bufferSize>>}
                    /\ DestroyedByStep(p, i) => LiveIn(ctx', p, i) = {}
       /\ LiveAllocationsValid(globals, ctx)
       /\ LiveAllocationsValid(globals', ctx')
      ]_vars

\* C25 witness: two contexts asked for the same dedicated handle and got an external
\* block each; the destructor of one has destroyed its block and the other context
\* is alive in its own block
C25_ExternalDestroyedBesideSameHandle ==
    /\ lastCall.op = "free"
    /\ \E i, j \in 1..Len(globals.mCombinedBlocks) :
          /\ globals.mCombinedBlocks[i].isEmpty
          /\ globals.mCombinedBlocks[i].external
          /\ ~globals.mCombinedBlocks[j].isEmpty
          /\ globals.mCombinedBlocks[j].external
          /\ globals.mCombinedBlocks[i].dedicatedContextHandle =
                globals.mCombinedBlocks[j].dedicatedContextHandle
          /\ LiveIn(ctx, "mCombinedBlocks", j) # {}


(***************************************************************************)
(* C26: Sleep received by a blocked consumer                               *)
(***************************************************************************)
\* C26: when a consumer blocked in onUnavailableRead's receive takes a Sleep command
\* the call does not return - the thread is back at the label sleep with the host
\* state and the counter as they were - and from that label its next step writes
\* NEED_NOTIFY and blocks in receive again; taking Sleep never makes the host state
\* CAN_CONSUME.
C26_SleepRearms ==
    [][\A k \in 1..MaxConsumers :
         LET c == consumers[k].owner
             ch == mConsumerMessages[c]
         IN  consumers[k].owner # 0 /\ consumers'[k] # consumers[k] =>
             /\ (consumers[k].pc = "recv" /\ ch # <<>> /\ Head(ch) = "Sleep") =>
                   /\ consumers'[k].pc = "sleep"
                   /\ mConsumerMessages'[c] = Tail(ch)
                   /\ ctx'[c].host_state = ctx[c].host_state
                   /\ ctx'[c].mUnavailableReadCount = ctx[c].mUnavailableReadCount
             /\ consumers[k].pc = "sleep" =>
                   /\ consumers'[k].pc = "recv"
                   /\ ctx'[c].host_state = "NEED_NOTIFY"
      ]_vars

\* C26 witness: a Sleep command is at the head of the channel of a consumer blocked
\* in receive, after the destructor has written EXIT over the NEED_NOTIFY that the
\* consumer wrote before blocking
C26_SleepForBlockedConsumer ==
    \E k \in 1..MaxConsumers :
       /\ consumers[k].owner # 0
       /\ consumers[k].pc = "recv"
       /\ mConsumerMessages[consumers[k].owner] # <<>>
       /\ Head(mConsumerMessages[consumers[k].owner]) = "Sleep"
       /\ ctx[consumers[k].owner].host_state = "EXIT"


(***************************************************************************)
(* C27: a block index that is out of range                                 *)
(***************************************************************************)
NullDereference == "asg_context_create on a null ring storage"

\* load of context c when its ring Allocation was left without a buffer: the ring
\* header is then written through a null pointer, which may stop the process
LoadCrash(c) ==
    /\ aborted = ""
    /\ snap.pc = "loading"
    /\ c = Min(snap.todo)
    /\ load(globals, snap.stream, snap.pos,
            snap.saved.ctx[c].ring_config,
            snap.saved.ctx[c].host_state).obj.mRingAllocation.buffer = NullPtr
    /\ aborted' = NullDereference
    /\ UNCHANGED <<globals, ctx, mConsumerMessages, consumers, lastCall, snap, task, dir>>

\* Contexts created and destroyed, one save of everything and one load of it, with
\* clear() called at any time while the contexts are being loaded
NextStale ==
    \/ /\ snap.pc = "idle"
       /\ \E c \in Ctxs :
             \/ Construct(c, SnapCreate(c))
             \/ Destroy(c)
       /\ UNCHANGED <<snap, task, dir>>
    \/ GlobalStateSave
    \/ \E c \in Ctxs : Save(c)
    \/ \E resources \in LoadResources : GlobalStateLoad(resources)
    \/ snap.pc = "loading" /\ Clear /\ UNCHANGED <<snap, task, dir>>
    \/ \E c \in Ctxs : Load(c)
    \/ \E c \in Ctxs : LoadCrash(c)

SpecStale == Init /\ [][NextStale]_vars

\* C27 as stated: deleteAllocation aborts on an Allocation whose blockIndex is not an
\* index of its pool, and no context is alive - constructed, or loaded by
\* Context::load - with a ring or buffer Allocation whose buffer pointer is null.
C27_OutOfRangeIsFatal ==
    /\ \A pool \in Pools : \A c \in Alive(ctx) : \A a \in OwnedAllocations(ctx[c]) :
          Len(globals[pool]) <= a[2].blockIndex =>
             deleteAllocation(globals, a[2], pool).abort = ShouldBeABlock
    /\ \A c \in Ctxs : ctx[c].pc = "live" =>
          /\ ctx[c].mRingAllocation.buffer # NullPtr
          /\ ctx[c].mBufferAllocation.buffer # NullPtr


(***************************************************************************)
(* C28: clear() and the start of Globals::load                             *)
(***************************************************************************)
\* Globals::load, its call of clear(). The contexts that existed are left with
\* Allocations into blocks that are gone.
LoadClear ==
    /\ aborted = ""
    /\ snap.pc = "saved"
    /\ globals' = clear(globals)
    /\ ctx' = [c \in Ctxs |-> IF c \in Alive(ctx)
                              THEN [ctx[c] EXCEPT !.pc = "cleared"] ELSE ctx[c]]
    /\ UNCHANGED <<task, dir>>
    /\ snap' = [snap EXCEPT !.pc = "load_preload"]
    /\ lastCall' = [NoCall EXCEPT !.op = "clear"]
    /\ UNCHANGED <<mConsumerMessages, consumers, aborted>>

\* Globals::load, mConsumerInterface.globalPreLoad()
LoadGlobalPreLoad ==
    /\ aborted = ""
    /\ snap.pc = "load_preload"
    /\ UNCHANGED <<task, dir>>
    /\ snap' = [snap EXCEPT !.pc = "load_read"]
    /\ lastCall' = [NoCall EXCEPT !.op = "globalPreLoad"]
    /\ UNCHANGED <<globals, ctx, mConsumerMessages, consumers, aborted>>

\* Globals::load, the rest: the three counts and the block records
LoadBlocks(resources) ==
    /\ aborted = ""
    /\ snap.pc = "load_read"
    /\ GlobalStateLoaded(GlobalsLoadCleared(globals, snap.stream, resources))

\* Contexts created and destroyed while another user takes a region of the window,
\* clear() at any time, and one save of everything and one load of it, the load of
\* the pools step by step
NextReload ==
    \/ /\ snap.pc = "idle"
       /\ \/ \E c \in Ctxs :
               \/ Construct(c, SnapCreate(c))
               \/ Destroy(c)
          \/ globals.foreign = {} /\ ForeignAlloc
          \/ Clear
       /\ UNCHANGED <<snap, task, dir>>
    \/ GlobalStateSave
    \/ \E c \in Ctxs : Save(c)
    \/ LoadClear
    \/ LoadGlobalPreLoad
    \/ \E resources \in LoadResources : LoadBlocks(resources)
    \/ \E c \in Ctxs : Load(c)

SpecReload == Init /\ [][NextReload]_vars

\* The blocks in use of G that own their memory
InternalInUse(G) ==
    {b \in UNION {{G[p][i] : i \in 1..Len(G[p])} : p \in Pools} : ~b.isEmpty /\ ~b.external}

\* The number of calls of destroyBlockLocked that clear()'s loop over a pool makes
\* from block i on
RECURSIVE clearPoolCalls(_, _, _)
clearPoolCalls(G, pool, i) ==
    IF i > Len(G[pool]) THEN 0
    ELSE IF G[pool][i].isEmpty
    THEN clearPoolCalls(G, pool, i + 1)
    ELSE 1 + clearPoolCalls(destroyBlockLocked(G, pool, i), pool, i + 1)

\* C28: clear() leaves the three pools without a slot, having destroyed each block in
\* use once - the mapping, the region and the buffer of each block that owns its
\* memory are released - and no slot that was destroyed before: what such a slot
\* once held, which may be in other hands by now, is left alone; and Globals::load
\* clears first, then notifies the global pre-load, and only then reads the stream.
C28_ClearDestroysEachBlockOnce ==
    [][/\ LET G == clear(globals)
          IN  /\ \A p \in Pools :
                    /\ G[p] = <<>>
                    /\ clearPoolCalls(globals, p, 1) =
                          Cardinality({i \in 1..Len(globals[p]) : ~globals[p][i].isEmpty})
                    /\ \A i \in 1..Len(globals[p]) : clearPool(globals, p, 1)[p][i].isEmpty
              /\ G.regions = globals.regions \ {b.offsetIntoPhys : b \in InternalInUse(globals)}
              /\ G.heap = globals.heap \ {b.buffer : b \in InternalInUse(globals)}
              /\ G.mappings = globals.mappings \
                                 {<<b.offsetIntoPhys, b.buffer>> : b \in InternalInUse(globals)}
              /\ globals.foreign \subseteq G.regions
              /\ (\E p \in Pools : globals[p] # <<>> /\ globals'[p] = <<>>) => globals' = G
       /\ snap.pc = "saved" /\ snap'.pc # "saved" =>
             /\ snap'.pc = "load_preload"
             /\ globals' = clear(globals)
             /\ snap'.pos = snap.pos
       /\ snap.pc = "load_preload" /\ snap'.pc # "load_preload" =>
             /\ snap'.pc = "load_read"
             /\ lastCall'.op = "globalPreLoad"
             /\ globals' = globals
             /\ snap'.pos = snap.pos
       /\ (snap'.pos # snap.pos \/ snap'.pc \in {"loading", "loaded"}) /\ snap.pc # "loading" =>
             /\ snap.pc = "load_read"
             /\ lastCall.op = "globalPreLoad"
             /\ \A p \in Pools : globals[p] = <<>>
      ]_vars

\* C28 witness: Globals::load has cleared pools that held both a block in use and a
\* slot destroyed earlier whose region another user has taken since, and has notified
\* the global pre-load; it has read nothing yet
C28_ClearedAndNotifiedBeforeRead ==
    /\ snap.pc = "load_read"
    /\ lastCall.op = "globalPreLoad"
    /\ \A p \in Pools : globals[p] = <<>>
    /\ \E p \in Pools : \E i \in 1..Len(snap.saved.globals[p]) :
          /\ snap.saved.globals[p][i].isEmpty
          /\ snap.saved.globals[p][i].offsetIntoPhys \in snap.saved.globals.foreign
    /\ InternalInUse(snap.saved.globals) # {}


(***************************************************************************)
(* C29: the Allocations and the consumer of a loaded context               *)
(***************************************************************************)
\* An Allocation read back by load: the block index, offset and size that were
\* saved, and a buffer pointer that lies in block `block` as far from its start as
\* the saved offset lies from the block's offset
Reattached(new, old, block) ==
    /\ new.blockIndex = old.blockIndex
    /\ new.offsetIntoPhys = old.offsetIntoPhys
    /\ new.size = old.size
    /\ new.buffer = <<block.buffer, old.offsetIntoPhys - block.offsetIntoPhys>>
    /\ new.buffer[2] \in 0..(block.bufferSize - new.size)
    /\ <<new.buffer[2], new.size>> \in block.subAlloc

\* C29: the step in which Context::load reads context c, after Globals::load, leaves
\* each Allocation that the context owns with a buffer pointer computed from the
\* reloaded block at its saved blockIndex; the ring and buffer Allocations of a
\* virtio context are the views of its combined Allocation; and the context has a
\* consumer, made from the stream's consumer record, exactly when the presence flag
\* that precedes it in the stream is 1.
C29_LoadReattachesAllocations ==
    [][\A c \in Ctxs :
          (snap.pc = "loading" /\ c \in snap.todo /\ c \notin snap'.todo) =>
             LET old == snap.saved.ctx[c]
                 new == ctx'[c]
                 flag == IF snap.stream[snap'.pos - 1][1] = "consumer"
                         THEN snap'.pos - 2 ELSE snap'.pos - 1
             IN  /\ new.pc = "live"
                 /\ new.mVirtioGpuInfo = old.mVirtioGpuInfo
                 /\ IF new.mVirtioGpuInfo
                    THEN /\ Reattached(new.mCombinedAllocation, old.mCombinedAllocation,
                               globals.mCombinedBlocks[old.mCombinedAllocation.blockIndex + 1])
                         /\ new.mRingAllocation =
                               allocRingViewIntoCombined(new.mCombinedAllocation)
                         /\ new.mBufferAllocation =
                               allocBufferViewIntoCombined(new.mCombinedAllocation)
                         /\ new.mRingAllocation.isView /\ new.mBufferAllocation.isView
                    ELSE /\ Reattached(new.mRingAllocation, old.mRingAllocation,
                               globals.mRingBlocks[old.mRingAllocation.blockIndex + 1])
                         /\ Reattached(new.mBufferAllocation, old.mBufferAllocation,
                               globals.mBufferBlocks[old.mBufferAllocation.blockIndex + 1])
                 /\ snap.stream[flag] \in {putBe32(0), putBe32(1)}
                 /\ new.mCurrentConsumer # 0 <=> snap.stream[flag] = putBe32(1)
                 /\ new.mCurrentConsumer # 0 =>
                       /\ snap.stream[flag + 1][1] = "consumer"
                       /\ consumers[new.mCurrentConsumer].owner = 0
                       /\ consumers'[new.mCurrentConsumer].owner = c
                 /\ new.mCurrentConsumer = 0 => consumers' = consumers
      ]_vars

\* C29 witness: everything is loaded; a non-virtio context has its ring Allocation
\* past the start of a block it shares, a virtio context has its views, and a
\* context has its consumer again
C29_ReloadedAtOffset ==
    /\ snap.pc = "loaded"
    /\ \E c \in Ctxs :
          /\ ctx[c].pc = "live" /\ ~ctx[c].mVirtioGpuInfo
          /\ ctx[c].mRingAllocation.buffer[2] > 0
    /\ \E c \in Ctxs :
          ctx[c].pc = "live" /\ ctx[c].mVirtioGpuInfo /\ ctx[c].mRingAllocation.isView
    /\ \E c \in Ctxs : ctx[c].pc = "live" /\ ctx[c].mCurrentConsumer # 0


(***************************************************************************)
(* C30: ASG_GET_CONFIG                                                     *)
(***************************************************************************)
\* The fields of the ring header that the guest moves, and the values it gives them
GuestRingFields ==
    [guest_write_pos |-> {0, PerContextBufferSize}, transfer_mode |-> 1..2, in_error |-> 0..1]

\* The guest writes field `f` of the ring header of its context, which lies in
\* memory shared with it
GuestRingWrite(c, f, v) ==
    /\ aborted = ""
    /\ ctx[c].pc = "live"
    /\ ctx[c].ring_config[f] # v
    /\ ctx' = [ctx EXCEPT ![c].ring_config[f] = v]
    /\ UNCHANGED <<globals, mConsumerMessages, consumers, aborted, lastCall>>

\* The first context, not virtio, and the last virtio one, whose guests move the ring
\* header; one save of everything and one load of it; GET_CONFIG pings before the
\* save and after the load
NextConfig ==
    \/ /\ snap.pc = "idle"
       /\ \E c \in {1, NumVirtioCtx} :
             \/ Construct(c, SnapCreate(c))
             \/ \E f \in DOMAIN GuestRingFields : \E v \in GuestRingFields[f] :
                   GuestRingWrite(c, f, v)
       /\ UNCHANGED <<snap, task, dir>>
    \/ /\ snap.pc \in {"idle", "loaded"}
       /\ \E c \in {1, NumVirtioCtx} : \E g \in {0, HostVersion} :
             Perform(c, [metadata |-> ASG_GET_CONFIG, size |-> g])
    \/ GlobalStateSave
    \/ \E c \in Ctxs : Save(c)
    \/ \E resources \in LoadResources : GlobalStateLoad(resources)
    \/ \E c \in Ctxs : Load(c)

SpecConfig == Init /\ [][NextConfig]_vars

\* C30: on every live context, whatever the guest has made of the ring header,
\* perform(ASG_GET_CONFIG) returns metadata 0 and leaves the context as it was but
\* for the ring header, which is the saved copy - the header as the constructor set
\* it, which is also what load reads back; it leaves the channel as it was and
\* creates no consumer; a second GET_CONFIG changes nothing more; and the step of
\* the ping changes nothing but that context and the record of the call.
C30_GetConfigRestoresSavedHeader ==
    [][\A c \in Ctxs : ctx[c].pc = "live" =>
          \A g \in GuestVersions :
             LET info == [metadata |-> ASG_GET_CONFIG, size |-> g]
                 r == perform(ctx[c], info, mConsumerMessages[c])
                 again == perform(r.obj, info, r.channel)
             IN  /\ ctx[c].mSavedConfig = InitialRingConfig
                 /\ r.info = [metadata |-> 0, size |-> g]
                 /\ r.obj = [ctx[c] EXCEPT !.ring_config = ctx[c].mSavedConfig]
                 /\ r.channel = mConsumerMessages[c]
                 /\ ~r.create
                 /\ again = r
                 /\ (/\ lastCall' # lastCall
                     /\ lastCall'.op = "perform"
                     /\ lastCall'.context = c
                     /\ lastCall'.sent = info) =>
                       /\ ctx' = [ctx EXCEPT ![c] = r.obj]
                       /\ lastCall'.info = r.info
                       /\ lastCall'.created = 0
                       /\ ~lastCall'.queued
                       /\ UNCHANGED <<globals, mConsumerMessages, consumers, aborted, snap, task, dir>>
      ]_vars

\* C30 witness: a context was saved and loaded with a ring header that its guest had
\* moved away from the saved copy, and a GET_CONFIG after the load has put the saved
\* copy back
C30_HeaderResetAfterLoad ==
    /\ snap.pc = "loaded"
    /\ lastCall.op = "perform"
    /\ lastCall.sent.metadata = ASG_GET_CONFIG
    /\ lastCall.info.metadata = 0
    /\ snap.saved.ctx[lastCall.context].ring_config # snap.saved.ctx[lastCall.context].mSavedConfig
    /\ ctx[lastCall.context].pc = "live"
    /\ ctx[lastCall.context].ring_config = ctx[lastCall.context].mSavedConfig


(***************************************************************************)
(* base/async/RecurrentTask.h                                              *)
(*                                                                         *)
(* A RecurrentTask, the one-shot timer it created on its looper, the       *)
(* looper thread that runs taskCallback when the timer expires, and a      *)
(* second thread that calls start, stopAsync, stopAndWait and the          *)
(* destructor. Every section of the code that holds mMutex is one step;    *)
(* mFunction runs outside the mutex and is split in its beginning and its  *)
(* return. task.looper is where the looper thread is:                      *)
(*   "idle"            outside taskCallback                                *)
(*   "callback"        taskCallback entered, inFlight() not yet called     *)
(*   "function"        inFlight() returned true, mFunction not yet called  *)
(*   "running"         inside mFunction                                    *)
(*   "returned_true" / "returned_false"  mFunction returned, mutex not     *)
(*                     yet taken                                           *)
(*   "crashed"         an access to the destroyed object ended the thread  *)
(* task.stopped: stopAsync has returned and start has not been called      *)
(* since. task.runningWhenStopped: the invocation of mFunction that was    *)
(* running when stopAndWait was last called has not returned yet.          *)
(***************************************************************************)

\* Invocations of the task function in one behaviour
MaxRuns == 4

\* void start(initialDelay): mInFlight = true; mTimer->startRelative(...)
start(t) == [t EXCEPT !.mInFlight = TRUE, !.timer = TRUE]

\* void stopAsync(): mInFlight = false; mTimer->stop()
stopAsync(t) == [t EXCEPT !.mInFlight = FALSE, !.timer = FALSE]

\* void stopAndWait(): stopAsync()
stopAndWait(t) == stopAsync(t)

\* bool inFlight() const
inFlight(t) == t.mInFlight

\* The part of taskCallback after mFunction has returned result
taskCallbackFinish(t, result) ==
    IF result
    THEN [t EXCEPT !.timer = IF t.mInFlight THEN TRUE ELSE @, !.looper = "idle"]
    ELSE [t EXCEPT !.mInFlight = FALSE, !.looper = "idle"]

TaskFrame == UNCHANGED <<globals, ctx, mConsumerMessages, consumers, aborted, lastCall, snap, dir>>

Start ==
    /\ ~task.destroyed
    /\ task' = [start(task) EXCEPT !.stopped = FALSE, !.runningWhenStopped = FALSE]
    /\ TaskFrame

StopAsync ==
    /\ ~task.destroyed
    /\ task' = [stopAsync(task) EXCEPT !.stopped = TRUE]
    /\ TaskFrame

StopAndWait ==
    /\ ~task.destroyed
    /\ task' = [stopAndWait(task) EXCEPT !.stopped = TRUE,
                                         !.runningWhenStopped = (stopAndWait(task).looper = "running")]
    /\ TaskFrame

\* ~RecurrentTask(): stopAndWait(), then the members (the timer among them) are destroyed
TaskDestructor ==
    /\ ~task.destroyed
    /\ task' = [stopAndWait(task) EXCEPT !.stopped = TRUE, !.destroyed = TRUE,
                                         !.runningWhenStopped = (stopAndWait(task).looper = "running")]
    /\ TaskFrame

\* The looper runs the callback of an expired timer on its own thread
TimerFire ==
    /\ task.timer /\ task.looper = "idle" /\ ~task.destroyed
    /\ task.runs < MaxRuns
    /\ task' = [task EXCEPT !.timer = FALSE, !.looper = "callback"]
    /\ TaskFrame

\* taskCallback: if (inFlight())
TaskCallbackCheck ==
    /\ task.looper = "callback" /\ ~task.destroyed
    /\ task' = [task EXCEPT !.looper = IF inFlight(task) THEN "function" ELSE "idle"]
    /\ TaskFrame

\* taskCallback: mFunction() is entered
FunctionBegin ==
    /\ task.looper = "function" /\ ~task.destroyed
    /\ task' = [task EXCEPT !.looper = "running", !.runs = @ + 1]
    /\ TaskFrame

\* mFunction returns true (repeat) or false
FunctionReturn(result) ==
    /\ task.looper = "running"
    /\ task' = [task EXCEPT !.looper = IF result THEN "returned_true" ELSE "returned_false",
                            !.runningWhenStopped = FALSE]
    /\ TaskFrame

\* taskCallback: the locked section after mFunction
TaskCallbackFinish ==
    /\ task.looper \in {"returned_true", "returned_false"} /\ ~task.destroyed
    /\ task' = taskCallbackFinish(task, task.looper = "returned_true")
    /\ TaskFrame

\* taskCallback on an object whose destructor has run: the mutex, the flag
\* and the function are gone; the thread goes on or ends
TaskUseAfterFree ==
    /\ task.destroyed /\ task.looper \in {"callback", "function", "returned_true", "returned_false"}
    /\ \E outcome \in {"idle", "crashed"} : task' = [task EXCEPT !.looper = outcome]
    /\ TaskFrame

NextTask ==
    \/ Start
    \/ StopAsync
    \/ StopAndWait
    \/ TaskDestructor
    \/ TimerFire
    \/ TaskCallbackCheck
    \/ FunctionBegin
    \/ \E result \in BOOLEAN : FunctionReturn(result)
    \/ TaskCallbackFinish
    \/ TaskUseAfterFree

SpecTask == Init /\ [][NextTask]_vars

\* C31: when stopAndWait (or the destructor, which calls it) has returned, the
\* invocation of the task function that was running when it was called has completed.
C31_StopAndWaitWaits ==
    ~task.runningWhenStopped


\* C32: once stopAsync has returned, and until start is called again, no
\* invocation of the task function begins and the timer is not re-armed by
\* an invocation that returns true.
C32_NoTaskAfterStopAsync ==
    [][(task.stopped /\ task'.stopped) =>
          /\ ~(task.looper # "running" /\ task'.looper = "running")
          /\ ~(~task.timer /\ task'.timer)]_vars

StoppedTimerStaysStopped ==
    [][(task.stopped /\ task'.stopped) => ~(~task.timer /\ task'.timer)]_vars


(***************************************************************************)
(* windows/src/dirent/dirent.cpp                                           *)
(*                                                                         *)
(* A directory stream. dir.listing is what FindFirstFileW / FindNextFileW  *)
(* enumerate: ".", ".." and the entries of the directory, by their wide    *)
(* names; dir.handle is the index in it of the item in find_data. errno    *)
(* is written on errors only, as in the code; ret is what the last call    *)
(* of readdir returned, a d_name or nullptr.                               *)
(***************************************************************************)

\* Entries of a directory (not counting . and ..)
MaxEntries == 3

\* sizeof(dirent::d_name)
FILENAME_MAX == 260

\* Bytes of the UTF-8 form of an ordinary name ("file1.txt")
ShortNameBytes == 9

nullptr == ""

\* A name of 100 characters of three UTF-8 bytes each: a valid name of the
\* file system, longer than d_name once converted
LongName == "long"

FileNames == {"file1.txt", "file2.txt", "file3.txt", LongName}

\* wide_to_utf8(cFileName).length()
utf8_length(name) == IF name = LongName THEN FILENAME_MAX + 40 ELSE ShortNameBytes

\* The directories: their entries in the order of enumeration
Directories ==
    {s \in UNION {[1..n -> FileNames] : n \in 0..MaxEntries} :
        \A i, j \in DOMAIN s : i # j => s[i] # s[j]}

\* The entries of the directory of stream d, without . and ..
Entries(d) == SubSeq(d.listing, 3, Len(d.listing))

\* DIR* opendir(name) on an existing directory: FindFirstFileW finds "."
opendir(entries) ==
    [open |-> TRUE, listing |-> <<".", "..">> \o entries, handle |-> 1, first |-> TRUE,
     end_reached |-> FALSE, current_position |-> 0, errno |-> "0", ret |-> nullptr]

\* The loop of readdir
RECURSIVE readdirLoop(_)
readdirLoop(d) ==
    IF ~d.first /\ d.handle = Len(d.listing)
    THEN [d EXCEPT !.end_reached = TRUE, !.ret = nullptr]
    ELSE LET f == [d EXCEPT !.handle = IF d.first THEN @ ELSE @ + 1, !.first = FALSE]
             name == f.listing[f.handle]
         IN  IF name \in {".", ".."}
             THEN readdirLoop(f)
             ELSE IF utf8_length(name) >= FILENAME_MAX
                  THEN [f EXCEPT !.errno = "ENAMETOOLONG", !.ret = nullptr]
                  ELSE [f EXCEPT !.current_position = @ + 1, !.ret = name]

\* struct dirent* readdir(DIR*)
readdir(d) ==
    IF d.end_reached THEN [d EXCEPT !.ret = nullptr] ELSE readdirLoop(d)

\* void rewinddir(DIR*)
rewinddir(d) ==
    [d EXCEPT !.handle = 1, !.first = TRUE, !.end_reached = FALSE, !.current_position = 0]

\* long telldir(DIR*)
telldir(d) == IF d.end_reached THEN -1 ELSE d.current_position

\* seekdir(dirp, -1): while (readdir(dirp) != nullptr);
RECURSIVE readdirUntilNull(_)
readdirUntilNull(d) ==
    LET r == readdir(d) IN IF r.ret = nullptr THEN r ELSE readdirUntilNull(r)

\* seekdir(dirp, loc > 0): the loop for (i = 0; i < loc; ++i)
RECURSIVE readdirTimes(_, _, _)
readdirTimes(d, i, loc) ==
    IF i >= loc
    THEN d
    ELSE LET r == readdir(d)
         IN  IF r.ret = nullptr THEN [r EXCEPT !.errno = "EINVAL"] ELSE readdirTimes(r, i + 1, loc)

\* void seekdir(DIR*, long loc)
seekdir(d, loc) ==
    IF loc = 0 THEN rewinddir(d)
    ELSE IF loc = -1 THEN readdirUntilNull(d)
    ELSE IF loc > 0 THEN readdirTimes(rewinddir(d), 0, loc)
    ELSE [d EXCEPT !.errno = "EINVAL"]

DirFrame == UNCHANGED <<globals, ctx, mConsumerMessages, consumers, aborted, lastCall, snap, task>>

Opendir(entries) ==
    /\ ~dir.open
    /\ dir' = opendir(entries)
    /\ DirFrame

Readdir ==
    /\ dir.open
    /\ dir' = readdir(dir)
    /\ DirFrame

Rewinddir ==
    /\ dir.open
    /\ dir' = rewinddir(dir)
    /\ DirFrame

\* The positions given to seekdir: -2 .. one more than there can be entries
SeekPositions == -2 .. (MaxEntries + 1)

Seekdir(loc) ==
    /\ dir.open
    /\ dir' = seekdir(dir, loc)
    /\ DirFrame

\* int closedir(DIR*): the stream is deleted
Closedir ==
    /\ dir.open
    /\ dir' = InitDir
    /\ DirFrame

NextDir ==
    \/ \E entries \in Directories : Opendir(entries)
    \/ Readdir
    \/ Rewinddir
    \/ \E loc \in SeekPositions : Seekdir(loc)
    \/ Closedir

SpecDir == Init /\ [][NextDir]_vars

\* The name fits d_name once converted
Fits(name) == utf8_length(name) < FILENAME_MAX

\* The entries that readdir can return: the others are skipped with ENAMETOOLONG
Readable(d) == SelectSeq(Entries(d), Fits)

\* The entry that readdir returns after position k of the directory of d
EntryAfter(d, k) == IF k < Len(Readable(d)) THEN Readable(d)[k + 1] ELSE nullptr

\* Every name of the directory fits d_name once converted
AllNamesFit(d) == \A i \in DOMAIN d.listing : Fits(d.listing[i])

\* C33: on a stream over N entries telldir is 0 after opendir, rewinddir and
\* seekdir(0) and grows by one with each successful readdir; after seekdir(k),
\* 0 < k <= N, telldir is k and readdir returns the entry that followed
\* position k; seekdir(telldir()) restores the position. (N counts the entries
\* that readdir returns; the entry that follows position k is looked at when
\* every name fits.)
C33_SeekdirTelldirPositions ==
    dir.open =>
        /\ telldir(opendir(Entries(dir))) = 0
        /\ telldir(rewinddir(dir)) = 0
        /\ telldir(seekdir(dir, 0)) = 0
        /\ readdir(dir).ret # nullptr => telldir(readdir(dir)) = dir.current_position + 1
        /\ \A k \in 1..Len(Readable(dir)) :
              /\ telldir(seekdir(dir, k)) = k
              /\ AllNamesFit(dir) => readdir(seekdir(dir, k)).ret = EntryAfter(dir, k)
        /\ LET back == seekdir(dir, telldir(dir))
           IN  /\ telldir(back) = telldir(dir)
               /\ readdir(back).ret = readdir(dir).ret

\* The same on the directories whose names all fit d_name
SeekdirTelldirPositionsOfShortNames ==
    AllNamesFit(dir) => C33_SeekdirTelldirPositions

\* C34: seekdir(-1) leaves the stream at its end (telldir -1, readdir nullptr
\* until a rewind or a seek); a position above the number of entries sets
\* EINVAL and leaves the stream at its end; a negative position other than
\* -1 sets EINVAL and leaves the position unchanged.
C34_SeekdirEndAndErrors ==
    dir.open =>
        /\ LET end == seekdir(dir, -1)
           IN  /\ telldir(end) = -1
               /\ readdir(end).ret = nullptr
               /\ readdir(readdir(end)).ret = nullptr
        /\ \A loc \in SeekPositions :
              loc > Len(Entries(dir)) =>
                  /\ seekdir(dir, loc).errno = "EINVAL"
                  /\ seekdir(dir, loc).end_reached
                  /\ readdir(seekdir(dir, loc)).ret = nullptr
        /\ \A loc \in SeekPositions :
              loc < -1 =>
                  /\ seekdir(dir, loc).errno = "EINVAL"
                  /\ seekdir(dir, loc) = [dir EXCEPT !.errno = "EINVAL"]

\* The same on the directories whose names all fit d_name
SeekdirEndAndErrorsOfShortNames ==
    AllNamesFit(dir) => C34_SeekdirEndAndErrors


\* C35: once the destructor has written EXIT to the host state, no later write
\* of the consumer thread in onUnavailableRead changes it to NEED_NOTIFY or
\* CAN_CONSUME.
C35_ExitIsAbsorbing ==
    [][\A c \in Ctxs :
          (ctx[c].pc \in {"dtor_send", "dtor_destroy", "dtor_free"} /\ ctx[c].host_state = "EXIT")
              => ctx'[c].host_state = "EXIT"]_vars


(***************************************************************************)
(* Destruction under fair scheduling                                       *)
(***************************************************************************)
\* The consumer thread k: it calls onUnavailableRead whenever it has nothing to
\* read, and goes on inside the call
ConsumerThread(k) ==
    /\ \/ ConsumerCall(k)
       \/ ConsumerCheck(k)
       \/ ConsumerSleep(k)
       \/ ConsumerReceive(k)
    /\ UNCHANGED <<snap, task, dir>>

\* The thread that runs the destructor of context c, after it has set mExiting
DestructorThread(c) ==
    /\ \/ DtorHostState(c)
       \/ DtorSend(c)
       \/ DtorDestroy(c)
       \/ DtorFree(c)
    /\ UNCHANGED <<snap, task, dir>>

\* SpecRead with both threads scheduled fairly: a thread that can take a step
\* (a send is not one while the channel is full, a receive is not one while it
\* is empty) takes it
SpecReadFair ==
    /\ Init
    /\ [][NextRead]_vars
    /\ \A k \in 1..MaxConsumers : WF_vars(ConsumerThread(k))
    /\ \A c \in Rendering : WF_vars(DestructorThread(c))

\* C36: under fair scheduling the destruction of a context with a consumer
\* terminates, whatever the channel holds when it begins: the send of Exit
\* completes, onUnavailableRead returns the stop value and the destructor ends.
C36_DestructionTerminates ==
    \A c \in Rendering :
        (ctx[c].pc = "dtor_state") ~>
            (/\ ctx[c].pc = "closed"
             /\ consumers[ctx[c].mCurrentConsumer].pc = "destroyed"
             /\ consumers[ctx[c].mCurrentConsumer].ret = -1)

\* C36 witness: the destructor is at its send of Exit and the channel is full of
\* Wakeups, the consumer thread being outside onUnavailableRead
C36_SendBlockedByWakeups ==
    \E c \in Rendering :
        /\ ctx[c].pc = "dtor_send"
        /\ Len(mConsumerMessages[c]) = ChannelCap
        /\ \A i \in 1..ChannelCap : mConsumerMessages[c][i] = "Wakeup"
        /\ consumers[ctx[c].mCurrentConsumer].pc = "run"


\* C37: on each context's channel a ResumePostSnapshot is sent only after a
\* PausePreSnapshot that no other resume has answered, whatever the guest does
\* between preSave and postSave, a SET_VERSION that creates the consumer included.
C37_ResumeAnswersPause ==
    [][\A c \in Ctxs :
          (/\ Len(mConsumerMessages'[c]) > Len(mConsumerMessages[c])
           /\ mConsumerMessages'[c][Len(mConsumerMessages'[c])] = "ResumePostSnapshot")
              => (snap.paused /\ ~snap'.paused)]_vars


\* C38: while neither clear() nor load() is called a pool's vector never shrinks
\* or reorders: a destroyed block stays as an empty slot, newAllocation refills
\* the lowest empty slot in place and appends a block only when no slot is
\* empty, so the blockIndex of every live Allocation keeps designating the
\* block that contains it.
C38_SlotsKeepTheirIndex ==
    [][/\ \A p \in Pools :
             /\ Len(globals'[p]) >= Len(globals[p])
             /\ Len(globals'[p]) > Len(globals[p]) =>
                   /\ Len(globals'[p]) = Len(globals[p]) + 1
                   /\ \A i \in 1..Len(globals[p]) : ~globals[p][i].isEmpty
             /\ \A i \in 1..Len(globals[p]) :
                   /\ (~globals[p][i].isEmpty /\ ~globals'[p][i].isEmpty) =>
                         /\ globals'[p][i].buffer = globals[p][i].buffer
                         /\ globals'[p][i].offsetIntoPhys = globals[p][i].offsetIntoPhys
                         /\ globals'[p][i].dedicatedContextHandle = globals[p][i].dedicatedContextHandle
                   /\ (globals[p][i].isEmpty /\ ~globals'[p][i].isEmpty) =>
                         \A j \in 1..(i - 1) : ~globals[p][j].isEmpty
       /\ \A c \in Ctxs : ctx'[c].pc = "live" =>
             \A a \in OwnedAllocations(ctx'[c]) :
                /\ a[2].blockIndex < Len(globals'[a[1]])
                /\ ~globals'[a[1]][a[2].blockIndex + 1].isEmpty
                /\ globals'[a[1]][a[2].blockIndex + 1].buffer = a[2].buffer[1]
                /\ <<a[2].buffer[2], a[2].size>> \in globals'[a[1]][a[2].blockIndex + 1].subAlloc
                /\ ctx[c].pc = "live" => a \in OwnedAllocations(ctx[c])]_vars

\* C38 witness: the last constructor refilled a destroyed slot that lies below a
\* block in use, whose Allocation is still alive
C38_RefilledBelowLiveBlock ==
    /\ lastCall.op = "new"
    /\ lastCall.refilled
    /\ \E p \in Pools : \E i, j \in 1..Len(globals[p]) :
          /\ i < j
          /\ LiveIn(ctx, p, i) # {} /\ LiveIn(ctx, p, j) # {}
          /\ \E c \in LiveIn(ctx, p, j) : \E d \in LiveIn(ctx, p, i) : c < d


\* C39: once mExiting is set, a call of onUnavailableRead goes to the blocking
\* receive on that very call, whatever the counter is, and no call returns 0.
C39_ExitingCallBlocks ==
    [][\A k \in 1..MaxConsumers :
          (consumers[k].owner \in Ctxs /\ ctx[consumers[k].owner].mExiting # 0) =>
              /\ Moves(k, "check") => (consumers'[k].pc = "sleep" /\ consumers'[k].ret = consumers[k].ret)
              /\ Moves(k, "sleep") => consumers'[k].pc = "recv"
              /\ (consumers[k].pc \in {"check", "sleep", "recv"} /\ consumers'[k].pc \in {"run", "stopped"})
                    => consumers'[k].ret # 0]_vars

\* C39 witness: a call made after mExiting was set is at its test with the
\* counter far below the maximum
C39_ExitingCallBelowMaximum ==
    \E k \in 1..MaxConsumers :
        /\ consumers[k].pc = "check"
        /\ ctx[consumers[k].owner].mExiting # 0
        /\ ctx[consumers[k].owner].mUnavailableReadCount = 1


\* C40: over any sequence of SET_VERSION commands on a context the negotiated
\* version never increases: after each command it is at most what it was and at
\* most the guest version supplied, and it is the value returned.
C40_VersionNeverIncreases ==
    [][/\ \A c \in Ctxs :
             (ctx[c].pc = "live" /\ ctx'[c].pc = "live") => ctx'[c].mVersion <= ctx[c].mVersion
       /\ (lastCall' # lastCall /\ lastCall'.op = "perform"
             /\ lastCall'.sent.metadata = ASG_SET_VERSION) =>
             /\ ctx'[lastCall'.context].mVersion <= lastCall'.sent.size
             /\ ctx'[lastCall'.context].mVersion = lastCall'.info.size
             /\ lastCall'.sent.size >= ctx[lastCall'.context].mVersion =>
                   ctx'[lastCall'.context].mVersion = ctx[lastCall'.context].mVersion]_vars

\* C40 witness: a SET_VERSION with the host's version has just been answered on
\* a context that an earlier SET_VERSION had lowered below it
C40_HigherVersionRefused ==
    /\ lastCall.op = "perform"
    /\ lastCall.sent.metadata = ASG_SET_VERSION
    /\ lastCall.sent.size >= HostVersion
    /\ lastCall.info.size < HostVersion
    /\ ctx[lastCall.context].mVersion < HostVersion

====
